---- MODULE Spec2Model ----
(***************************************************************************)
(* Route dispatch and middleware chains of imphnen.js                      *)
(* (src/src/app.ts, src/src/pipeline.ts, src/src/utils.ts).                *)
(*                                                                         *)
(* The application registers middleware, pipelines and routes; the         *)
(* dispatcher (Imphnen.handleRequest) matches a request and runs the       *)
(* matched chain by continuation passing.  A chain execution is modelled   *)
(* step by step: every call of next() and every return of a middleware is  *)
(* one action, the call stack of the awaiting middleware is `stack`.       *)
(*                                                                         *)
(* Specifications: Spec (an application and its requests), SpecPipe        *)
(* (pipelines built and executed on their own), SpecRoute (the two route   *)
(* tables, methods and CORS), SpecMatch (matchRoute and parseURLParams     *)
(* on their own), SpecCors (the values of options.cors and the preflight), *)
(* SpecFail (steps and handlers that throw, bodies the parser rejects),    *)
(* SpecLive (the same with the awaits resumed), SpecCtx (the response      *)
(* staging of a Context on its own), SpecTwo (two requests in flight),     *)
(* SpecReg (the verbs and the shapes of their arguments), SpecQuery        *)
(* (parseQuery on its own), SpecRate (one rateLimit middleware and its     *)
(* clock), SpecCombine (combineMiddleware on its own), SpecChain (steps    *)
(* that call next() twice), SpecStage (two requests in flight whose steps  *)
(* stage headers and status).                                              *)
(***************************************************************************)
EXTENDS Integers, Sequences, FiniteSets, TLC

\* ------------------------------------------------------------------ bounds
MaxUse      == 1   \* calls of app.use
MaxPipes    == 4   \* MiddlewarePipeline objects built with create and use
MaxSteps    == 3   \* steps of a pipeline built with use
MaxRouteSteps == 1 \* steps of a pipeline built for verb(path, pipeline, handler)
MaxRoutes   == 1   \* routes registered, both tables together
MaxRouteMw  == 2   \* middleware passed to verb(path, mw..., handler)
MaxTable    == 2   \* routes registered where only the tables matter
MaxPatLen   == 3   \* segments of a pattern given to matchRoute / parseURLParams
MaxPathLen  == 4   \* segments of a pathname given to them
MaxFailSteps == 2  \* steps of a route whose steps may throw
MaxStage    == 2   \* calls of ctx.set.headers and ctx.set.status on a Context
MaxTwoSteps == 2   \* steps of the route two requests are in flight for
MaxArgs     == 3   \* arguments after the path in a call of a verb
MaxEntries  == 3   \* search parameters of a request URL
MaxNow      == 3   \* milliseconds the clock advances
MaxArrivals == 3   \* requests that enter the rateLimit step
MaxCombined == 3   \* middleware passed to combineMiddleware
MaxChain    == 3   \* steps of a route whose steps may call next() twice
MaxStageSteps == 2 \* steps of a route whose steps stage a header and a status

\* ------------------------------------------- application-supplied functions
\* The middleware functions an application passes to use / verb.  A function
\* is known by its name; Arity is Function.length, Prog the statements of
\* its body that touch the chain.
Fns == {"hdr", "deny", "deny1", "twice", "addX", "addY", "setU"}

\* the functions passed to app.use, to verb(path, mw..., handler), to the
\* pipeline of verb(path, pipeline, handler) and to MiddlewarePipeline.use
UseFns   == {"hdr", "deny", "deny1"}
RouteFns == {"hdr", "deny", "twice"}
RouteStepFns == {"hdr", "deny", "twice", "setU"}
StepFns  == {"deny", "twice", "addX", "addY", "setU"}

\* Function.length of each middleware function
Arity(f) == IF f = "deny1" THEN 1 ELSE 2

\* "next"    : res = await next()
\* "nextX"   : res = await next({x: 1})      "nextY" : res = await next({y: 2})
\* "retHdr"  : res.headers.set('X-Test', 'true'); return res
\* "ret"     : return res
\* "ret401"  : return ctx.json({error}, {status: 401})
\* "assign"  : (ctx.state as any).u = 1
\* "tryNext" : try { res = await next() } catch { res = ctx.json({error:
\*             'Internal server error'}, {status: 500}) }
\* "throw"   : throw new Error('boom')
\* "throwUp" : throw new Error('File upload error: fake')
\* "stage"   : if (ctx.params.id === 'a') { ctx.set.headers({'X-A': '1'});
\*             ctx.set.status(201) }
Prog(f) ==
  CASE f = "hdr"   -> <<"next", "retHdr">>
    [] f = "deny"  -> <<"ret401">>
    [] f = "deny1" -> <<"ret401">>
    [] f = "twice" -> <<"next", "next", "ret">>
    [] f = "addX"  -> <<"nextX", "ret">>
    [] f = "addY"  -> <<"nextY", "ret">>
    [] f = "setU"  -> <<"assign", "next", "ret">>
    [] f = "guard" -> <<"tryNext", "ret">>
    [] f = "boom"  -> <<"throw">>
    [] f = "upErr" -> <<"throwUp">>
    [] f = "stage" -> <<"stage", "next", "ret">>

CallOps == {"next", "nextX", "nextY", "tryNext"}
RetOps  == {"ret", "retHdr", "ret401"}
ThrowOps == {"throw", "throwUp"}

\* the message of an Error, as the sequence of the texts it is made of
UploadMarker == "File upload error"
Boom     == <<"boom">>
FakeUploadError == <<UploadMarker, "fake">>

\* the Error a throw statement raises
Raised(op) == IF op = "throwUp" THEN FakeUploadError ELSE Boom

\* what a terminal handler does: "ok" returns ctx.json(...), "boom" and
\* "upErr" throw as the steps of those names do
HandlerFns == {"ok", "boom", "upErr"}
HandlerError(h) == IF h = "upErr" THEN FakeUploadError ELSE Boom

\* error.message.includes(text)
Includes(message, text) == \E i \in 1..Len(message) : message[i] = text

\* the object a step passes to next(...); a state object is a set of
\* <<key, value>> pairs with one pair per key
NextArg(op) ==
  CASE op = "nextX" -> {<<"x", 1>>}
    [] op = "nextY" -> {<<"y", 2>>}
    [] OTHER        -> {}

\* state[key] = value evaluated with the write left out: the object is as
\* it was
AssignLost(state, key, value) == state

\* the state object after state[key] = value
Assign(state, key, value) ==
  {p \in state : p[1] # key} \cup {<<key, value>>}

\* initial states an application passes to MiddlewarePipeline.create
InitialStates == {{}, {<<"u", 0>>}}

\* ------------------------------------------------------------ path matching
\* A path or a pattern is the result of split('/'): a sequence of segments.
\* A segment is [t, v]: t = "lit" (v the text), "param" (:v) or "opt" (:v?).
Lit(v)   == [t |-> "lit", v |-> v]
Param(v) == [t |-> "param", v |-> v]
Opt(v)   == [t |-> "opt", v |-> v]

PatA  == <<Lit(""), Lit("a")>>        \* "/a"
PatId == <<Lit(""), Param("id")>>     \* "/:id"
PathA == <<Lit(""), Lit("a")>>        \* "/a"
PathB == <<Lit(""), Lit("b")>>        \* "/b"

Patterns == {PatA, PatId}
Paths    == {PathA, PathB}

\* part.startsWith(':')
IsParam(seg) == seg.t \in {"param", "opt"}

\* endsWith('?') never found
IsOptionalNever(seg) == FALSE

\* part.startsWith(':') && part.endsWith('?')
IsOptional(seg) == seg.t = "opt"

\* matchRoute with the literal parts never compared
matchRouteLengthOnly(pattern, pathname) ==
  LET minPatternLength ==
        Cardinality({i \in 1..Len(pattern) : ~IsOptional(pattern[i])})
  IN  /\ ~(Len(pathname) < minPatternLength)
      /\ ~(Len(pathname) > Len(pattern))
      /\ \A i \in 1..Len(pattern) :
            i <= Len(pathname) \/ IsOptional(pattern[i])

\* matchRoute without the test pathParts.length > patternParts.length
matchRouteNoMax(pattern, pathname) ==
  LET minPatternLength ==
        Cardinality({i \in 1..Len(pattern) : ~IsOptional(pattern[i])})
  IN  /\ ~(Len(pathname) < minPatternLength)
      /\ \A i \in 1..Len(pattern) :
            IF IsParam(pattern[i])
              THEN i <= Len(pathname) \/ IsOptional(pattern[i])
              ELSE i <= Len(pathname) /\ pattern[i] = pathname[i]

matchRoute(pattern, pathname) ==
  LET minPatternLength ==
        Cardinality({i \in 1..Len(pattern) : ~IsOptional(pattern[i])})
  IN  /\ ~(Len(pathname) < minPatternLength)
      /\ ~(Len(pathname) > Len(pattern))
      /\ \A i \in 1..Len(pattern) :
            IF IsParam(pattern[i])
              THEN i <= Len(pathname) \/ IsOptional(pattern[i])
              ELSE i <= Len(pathname) /\ pattern[i] = pathname[i]

\* decodeURIComponent on the segment texts used here: "%41" is the escape
\* of "A", "%" alone is not an escape (URIError), the others have no escape
IsMalformedURI(v) == v = "%"
decodeURIComponent(v) == IF v = "%41" THEN "A" ELSE v

\* the loop of parseURLParams from index i on, params being the object
\* built so far; the result is [thrown, map]: thrown when
\* decodeURIComponent raised URIError, else map is the object returned
RECURSIVE ParseFrom(_, _, _, _)
ParseFrom(pattern, pathname, i, params) ==
  LET minLength == IF Len(pattern) < Len(pathname)
                     THEN Len(pattern) ELSE Len(pathname)
      maxLength == IF Len(pattern) < Len(pathname)
                     THEN Len(pathname) ELSE Len(pattern)
      continue  == ParseFrom(pattern, pathname, i + 1, params)
  IN  IF i > maxLength THEN [thrown |-> FALSE, map |-> params]
      ELSE IF i > Len(pattern) \/ pattern[i] = Lit("") THEN continue
      ELSE IF IsParam(pattern[i])
        THEN IF i <= Len(pathname) /\ pathname[i].v # ""
               THEN IF IsMalformedURI(pathname[i].v)
                      THEN [thrown |-> TRUE, map |-> {}]
                      ELSE ParseFrom(pattern, pathname, i + 1,
                             Assign(params, pattern[i].v,
                                    decodeURIComponent(pathname[i].v)))
               ELSE IF ~IsOptional(pattern[i])
                      THEN [thrown |-> FALSE, map |-> {}]
                      ELSE continue
        ELSE IF /\ i > Len(pathname) \/ pattern[i] # pathname[i]
                /\ i <= minLength
               THEN [thrown |-> FALSE, map |-> {}]
               ELSE continue

parseURLParams(pattern, pathname) == ParseFrom(pattern, pathname, 1, {})

\* the patterns and pathnames given to the two functions on their own:
\* both start with "/", hence with an empty segment
PatSegs  == {Lit(""), Lit("a"), Param("b"), Opt("b"), Param("c"), Opt("c")}
PathSegs == {Lit(""), Lit("a"), Lit("x"), Lit("%41"), Lit("%")}
SeqsFrom(segs, n) == UNION {[1..k -> segs] : k \in 0..n}
PatternSet == {<<Lit("")>> \o r : r \in SeqsFrom(PatSegs, MaxPatLen - 1)}
PathSet    == {<<Lit("")>> \o r : r \in SeqsFrom(PathSegs, MaxPathLen - 1)}

\* the last entry that matches instead of the first
FindRouteLast(table, method, pathname) ==
  LET hits == {i \in 1..Len(table) :
                 table[i].method = method /\ matchRoute(table[i].path, pathname)}
  IN  IF hits = {} THEN 0 ELSE CHOOSE i \in hits : \A j \in hits : i >= j

\* find without the test r.method === method
FindRouteAnyMethod(table, method, pathname) ==
  LET hits == {i \in 1..Len(table) : matchRoute(table[i].path, pathname)}
  IN  IF hits = {} THEN 0 ELSE CHOOSE i \in hits : \A j \in hits : i <= j

\* Array.prototype.find: index of the first entry that matches, 0 if none
FindRoute(table, method, pathname) ==
  LET hits == {i \in 1..Len(table) :
                 table[i].method = method /\ matchRoute(table[i].path, pathname)}
  IN  IF hits = {} THEN 0 ELSE CHOOSE i \in hits : \A j \in hits : i <= j

\* ---------------------------------------------------------------- responses
\* a Response: status, body (the literal texts of the dispatcher, "json"
\* for what ctx.json built, "" for none), the X-Test header, what the
\* handler put in the body (state, hcall), the other headers as
\* <<name, value>> pairs, and the message in a body {error: message}
NoResp  == [status |-> 0, body |-> "", xtest |-> FALSE, state |-> {},
            hcall |-> 0, headers |-> {}, error |-> <<>>]
Resp401 == [NoResp EXCEPT !.status = 401, !.body = "json"]
Resp404 == [NoResp EXCEPT !.status = 404, !.body = "Not Found"]
Resp500 == [NoResp EXCEPT !.status = 500, !.body = "Internal Server Error"]

\* new Response(JSON.stringify({error: error.message}), {status: 400,
\* headers: {'content-type': 'application/json'}})
Resp400(message) ==
  [NoResp EXCEPT !.status = 400, !.body = "json", !.error = message,
                 !.headers = {<<"content-type", "application/json">>}]

\* ctx.json({error: 'Internal server error'}, {status: 500}) of a step's
\* catch block
RespGuard ==
  [NoResp EXCEPT !.status = 500, !.body = "json",
                 !.error = <<"Internal server error">>]

\* ------------------------------------------------------------ options.cors
\* a value of an option: absent, a string, or an array of strings
Undefined == [t |-> "undefined", v |-> <<>>]
Str(s)    == [t |-> "string", v |-> <<s>>]
Arr(list) == [t |-> "array", v |-> list]

\* cors?: boolean | {origin?, methods?, headers?}
CorsFalse == [t |-> "false", origin |-> Undefined, methods |-> Undefined,
              headers |-> Undefined]
CorsTrue  == [CorsFalse EXCEPT !.t = "true"]
CorsObject(origin, methods, headers) ==
  [t |-> "object", origin |-> origin, methods |-> methods, headers |-> headers]

\* Array.prototype.join(', ')
RECURSIVE Join(_)
Join(list) ==
  IF list = <<>> THEN ""
  ELSE IF Len(list) = 1 THEN list[1]
  ELSE list[1] \o ", " \o Join(Tail(list))

\* a || b on strings: the empty string and undefined are falsy
OrElse(a, b) == IF a = "" THEN b ELSE a

\* x?.join(', ') of an optional array: undefined (falsy) when x is absent
OptJoin(x) == IF x.t = "array" THEN Join(x.v) ELSE ""

DefaultOrigin  == "*"
DefaultMethods == "GET, POST, PUT, DELETE, PATCH, OPTIONS"
DefaultHeaders == "Content-Type, Authorization"

\* the three headers of handleCors, from the defaults alone
CorsHeadersDefault(cors) ==
  {<<"Access-Control-Allow-Origin", DefaultOrigin>>,
   <<"Access-Control-Allow-Methods", DefaultMethods>>,
   <<"Access-Control-Allow-Headers", DefaultHeaders>>}

\* the three headers handleCors sets
CorsHeaders(cors) ==
  LET corsOptions == IF cors.t = "object" THEN cors
                     ELSE CorsObject(Undefined, Undefined, Undefined)
      origin == corsOptions.origin
      originHeader == IF origin.t = "array" THEN Join(origin.v)
                      ELSE OrElse(IF origin.t = "string" THEN origin.v[1]
                                  ELSE "", DefaultOrigin)
  IN  {<<"Access-Control-Allow-Origin", originHeader>>,
       <<"Access-Control-Allow-Methods",
         OrElse(OptJoin(corsOptions.methods), DefaultMethods)>>,
       <<"Access-Control-Allow-Headers",
         OrElse(OptJoin(corsOptions.headers), DefaultHeaders)>>}

\* handleCors: new Response(null, {status: 204, headers})
handleCors(cors) ==
  [NoResp EXCEPT !.status = 204, !.headers = CorsHeaders(cors)]

\* the handler's response: it reports the state it saw and how many times
\* the handler has run for this request (its side-effect counter)
HandlerResp(state, n) ==
  [NoResp EXCEPT !.status = 200, !.body = "json", !.state = state, !.hcall = n]

\* response.headers.set('X-Test', 'true')
SetHeader(resp) == [resp EXCEPT !.xtest = TRUE]

VARIABLES
  globalMiddlewares,  \* Imphnen.globalMiddlewares
  globalPipeline,     \* Imphnen.globalPipeline
  routes,             \* Imphnen.routes
  pipelineRoutes,     \* Imphnen.pipelineRoutes
  pipes,              \* the MiddlewarePipeline objects of the application
  req,                \* the request being handled
  useLog,             \* history: the functions passed to app.use, in order
  lineage,            \* history: how each pipeline object was made
  options,            \* Imphnen.options
  util,               \* a call of matchRoute / parseURLParams on its own
  other,              \* a second request, waiting at an await
  context,            \* the response staging of a Context on its own
  regLog,             \* history: the calls of the verbs, in order
  limit,              \* the options of one rateLimit middleware
  store,              \* the Map of one rateLimit middleware
  now,                \* Date.now()
  arrivals            \* history: the requests that entered the rateLimit step

vars == <<globalMiddlewares, globalPipeline, routes, pipelineRoutes, pipes,
          req, useLog, lineage, options, util, other, context, regLog,
          limit, store, now, arrivals>>

\* the state of the rateLimit middleware and its clock
limiter == <<limit, store, now, arrivals>>

\* --------------------------------------------------------------- parseQuery
\* An object made by {} is the set of its own properties, <<key, value>>
\* pairs with one pair per key; its prototype is Object.prototype.
\* obj[key] = value: a key that is no own property is looked up in the
\* prototype first.  Object.prototype has the accessor __proto__, whose
\* setter takes an object or null and does nothing with any other value;
\* the values of a query are strings.  Any other key becomes an own
\* property, or gets the new value.
SetProperty(obj, key, value) ==
  IF key = "__proto__"
    THEN obj
    ELSE {p \in obj : p[1] # key} \cup {<<key, value>>}

\* for (const [key, value] of url.searchParams.entries()) query[key] = value,
\* from the entry numbered i on
RECURSIVE QueryFrom(_, _, _)
QueryFrom(entries, i, query) ==
  IF i > Len(entries) THEN query
  ELSE QueryFrom(entries, i + 1,
                 SetProperty(query, entries[i][1], entries[i][2]))

\* parseQuery(url), entries being url.searchParams.entries()
parseQuery(entries) == QueryFrom(entries, 1, {})

\* ------------------------------------------------------ MiddlewarePipeline
\* static create(initialState?): new MiddlewarePipeline(initialState || {})
Create(initialState) ==
  [middlewares |-> <<>>, initialState |-> initialState]

\* use(middleware): a pipeline made by `new MiddlewarePipeline()`, whose
\* constructor parameter defaults to {}, with the receiver's steps and the
\* new one
UseNew(p, middleware) ==
  [middlewares |-> Append(p.middlewares, middleware), initialState |-> {}]

\* use written with this.middlewares.push(middleware): the receiver's own
\* array gets the step too
UsePipesInPlace(pool, p, middleware) ==
  Append([pool EXCEPT ![p].middlewares = Append(@, middleware)],
         UseNew(pool[p], middleware))

\* the pipeline objects after p.use(middleware): the receiver pool[p] is
\* left as it is and the new pipeline is one more object
UsePipes(pool, p, middleware) ==
  Append(pool, UseNew(pool[p], middleware))

\* ------------------------------------------------------------ createContext
\* Headers.set keeps one value per name, names compared without case
Lower(k) ==
  CASE k = "X-A" -> "x-a"
    [] k = "Content-Type" -> "content-type"
    [] OTHER -> k

\* a set that keeps the value the name already has
HeadersKeep(h, k, v) ==
  IF \E p \in h : p[1] = Lower(k) THEN h ELSE h \cup {<<Lower(k), v>>}

\* headers.set(k, v) on a Headers object, a set of <<name, value>> pairs
HeadersSet(h, k, v) == {p \in h : p[1] # Lower(k)} \cup {<<Lower(k), v>>}

\* for (const [key, value] of entries) headers.set(key, value)
RECURSIVE SetEach(_, _)
SetEach(h, entries) ==
  IF entries = <<>> THEN h
  ELSE SetEach(HeadersSet(h, entries[1][1], entries[1][2]), Tail(entries))

\* the entries of a Headers object (one per name; the order of the names
\* does not matter where each is set once)
RECURSIVE Entries0(_)
Entries0(h) ==
  IF h = {} THEN <<>>
  ELSE LET p == CHOOSE q \in h : TRUE IN <<p>> \o Entries0(h \ {p})

\* no Response built yet
NoBuilt == [by |-> "", status |-> 0, headers |-> {}, at |-> 0,
            init |-> [status |-> 0, headers |-> <<>>],
            from |-> [status |-> 0, headers |-> {}]]

\* createContext: let responseHeaders = new Headers(); let responseStatus =
\* 200; log is the history of the calls of ctx.set
NewContext ==
  [responseHeaders |-> {}, responseStatus |-> 200, log |-> <<>>,
   built |-> NoBuilt]

\* the content type json, text and html set
ContentType(by) ==
  CASE by = "json" -> "application/json; charset=utf-8"
    [] by = "text" -> "text/plain; charset=utf-8"
    [] by = "html" -> "text/html; charset=utf-8"

\* ctx.json / ctx.text / ctx.html (data, init): the status and the headers
\* of the Response; init.status is 0 where none is passed
BuiltBy(c, by, init) ==
  LET mergedHeaders ==
        SetEach(HeadersSet(SetEach({}, Entries0(c.responseHeaders)),
                           "content-type", ContentType(by)),
                init.headers)
  IN  [by |-> by,
       status |-> IF init.status # 0 THEN init.status ELSE c.responseStatus,
       headers |-> mergedHeaders, at |-> Len(c.log), init |-> init,
       from |-> [status |-> 0, headers |-> {}]]

\* ctx.file / ctx.proxy: response is what serveFile / proxyRequest returned
OverlaidOn(c, by, response) ==
  [by |-> by,
   status |-> IF c.responseStatus # 200 THEN c.responseStatus
              ELSE response.status,
   headers |-> SetEach(response.headers, Entries0(c.responseHeaders)),
   at |-> Len(c.log), init |-> [status |-> 0, headers |-> <<>>],
   from |-> response]

\* ------------------------------------------------------------- the request
\* pc, kind, route       : where handleRequest is and what it matched
\* method, path          : request.method, url.pathname
\* handler, params       : route.handler and ctx.params of the matched route
\* hfn                   : what route.handler does
\* parses                : the calls of parseBody
\* request               : the body of the Request, once it is read
\* body, files           : ctx.body and ctx.files
\* chain, pipe, index    : allMiddlewares (plain route), the pipeline
\*                         (pipeline route) and the `index` of the run
\* stack                 : the middleware invocations awaiting next()
\* result                : the Response returned to the client
\* history of the run    : trace (steps and handler entered, with the
\*   ctx.state each saw), hcalls (handler invocations), shorted (indexes of
\*   steps that returned without calling next), dbl (some invocation called
\*   next twice), passed (the objects passed to next, in order), written
\*   (the pairs the steps of this request assigned to ctx.state), phases
\*   (the stages of handleRequest passed), caught (the steps whose catch
\*   block took an Error, with its message), failure (the message of the
\*   Error that reached the catch block of the dispatcher), entered (the
\*   number of steps and handlers entered when parseBody was called, and
\*   when the dispatcher caught)
\* staging               : responseHeaders and responseStatus of the
\*                         request's Context, with the history of ctx.set
Idle ==
  [pc |-> "idle", kind |-> "none", route |-> 0, method |-> "", path |-> <<>>,
   handler |-> 0, hfn |-> "ok", params |-> {}, parses |-> 0,
   request |-> [ctype |-> "", files |-> <<>>],
   body |-> "null", files |-> [defined |-> FALSE, n |-> 0],
   chain |-> <<>>, pipe |-> 0, index |-> 0, stack |-> <<>>,
   result |-> NoResp, trace |-> <<>>, hcalls |-> 0, shorted |-> {},
   dbl |-> FALSE, passed |-> <<>>, written |-> {}, phases |-> <<>>,
   caught |-> <<>>, failure |-> <<>>,
   entered |-> [parse |-> 0, fail |-> 0],
   staging |-> NewContext]

Frame(f, i) == [fn |-> f, idx |-> i, pos |-> 1, calls |-> 0, res |-> NoResp]

Event(f, i, st) == [f |-> f, i |-> i, st |-> st]

\* a Response reaches whoever awaits it: the middleware on top of the stack,
\* or the dispatcher, which returns it to the client
Deliver(r, resp) ==
  IF r.stack = <<>>
    THEN [r EXCEPT !.result = resp, !.pc = "done",
                   !.phases = Append(@, "Completed")]
    ELSE [r EXCEPT !.stack[Len(r.stack)].res = resp]

\* a catch block that returns no Response
CaughtSilent(r, message) == [r EXCEPT !.failure = message]

\* the catch block of handleRequest / handlePipelineRoute
Caught(r, message) ==
  [r EXCEPT !.pc = "done",
            !.result = IF Includes(message, UploadMarker)
                         THEN Resp400(message) ELSE Resp500,
            !.failure = message,
            !.entered.fail = Len(r.trace),
            !.phases = Append(@, "Failed")]

\* an Error travels up the awaits: the step on top of the stack awaits
\* next(); inside a try block its catch block takes the Error, else the
\* promise of the step rejects and the Error goes on to the step below;
\* with no step left it reaches the dispatcher's catch block, or the caller
\* of execute
RECURSIVE Unwind(_, _)

\* an Error that passes every step's try block
UnwindPastTry(r, message) ==
  IF r.route = 0
    THEN [r EXCEPT !.pc = "done", !.stack = <<>>, !.failure = message]
    ELSE Caught([r EXCEPT !.stack = <<>>], message)

Unwind(r, message) ==
  IF r.stack = <<>>
    THEN IF r.route = 0
           THEN [r EXCEPT !.pc = "done", !.failure = message]
           ELSE Caught(r, message)
    ELSE LET n == Len(r.stack)
             f == r.stack[n]
         IN  IF f.pos > 1 /\ Prog(f.fn)[f.pos - 1] = "tryNext"
               THEN [r EXCEPT !.stack[n].res = RespGuard,
                              !.caught = Append(@, [idx |-> f.idx,
                                                    message |-> message])]
               ELSE Unwind([r EXCEPT !.stack = SubSeq(r.stack, 1, n - 1)],
                           message)

\* responseHeaders and responseStatus kept in one place for all Contexts:
\* a request reads what the other request in flight has staged
StagingShared(r) ==
  IF other.pc # "idle" /\ other.staging.log # <<>> THEN other.staging
  ELSE r.staging

\* the responseHeaders and responseStatus the closures of the Context of r
\* refer to: the variables of its own call of createContext
Staging(r) == r.staging

\* return ctx.json(data) of a handler: the Response ctx.json builds
JsonResp(c, state, n) ==
  LET built == BuiltBy(c, "json", [status |-> 0, headers |-> <<>>])
  IN  [HandlerResp(state, n) EXCEPT !.status = built.status,
                                    !.headers = built.headers]

\* await handler(ctx): the handler has run once more, and returns its
\* Response or throws; the handler "json" returns ctx.json(data) built from
\* what is staged
RunHandler(r, state) ==
  LET ran == [r EXCEPT !.hcalls = r.hcalls + 1,
                       !.trace = Append(r.trace, Event("H", 0, state))]
  IN  IF r.hfn = "ok"
        THEN Deliver(ran, HandlerResp(state, r.hcalls + 1))
      ELSE IF r.hfn = "json"
        THEN Deliver(ran, JsonResp(Staging(r), state, r.hcalls + 1))
        ELSE Unwind(ran, HandlerError(r.hfn))

\* const allMiddlewares = [...this.globalMiddlewares, ...route.middlewares]
AllMiddlewares(global, own) == global \o own

\* next over an index that is not the call's own: the requests in flight
\* advance one position between them
ChainNextShared(r, middlewares) ==
  LET index == IF other.index > r.index THEN other.index ELSE r.index
  IN  IF index < Len(middlewares)
        THEN [r EXCEPT !.index = index + 1,
                       !.stack = Append(r.stack,
                                   Frame(middlewares[index + 1], index + 1)),
                       !.trace = Append(r.trace,
                                   Event(middlewares[index + 1], index + 1, {}))]
        ELSE RunHandler([r EXCEPT !.index = index], {})

\* next written to go on from the position of the step that calls it: a
\* step that calls it again enters the following step again
ChainNextAgain(r, middlewares) ==
  LET index == IF r.stack = <<>> THEN 0 ELSE r.stack[Len(r.stack)].idx
  IN  IF index < Len(middlewares)
        THEN [r EXCEPT !.index = index + 1,
                       !.stack = Append(r.stack,
                                   Frame(middlewares[index + 1], index + 1)),
                       !.trace = Append(r.trace,
                                   Event(middlewares[index + 1], index + 1, {}))]
        ELSE RunHandler(r, {})

\* the closure `next` of Imphnen.executeMiddlewareChain; ctx has no state
ChainNext(r, middlewares) ==
  IF r.index < Len(middlewares)
    THEN [r EXCEPT !.index = r.index + 1,
                   !.stack = Append(r.stack,
                               Frame(middlewares[r.index + 1], r.index + 1)),
                   !.trace = Append(r.trace,
                               Event(middlewares[r.index + 1], r.index + 1, {}))]
    ELSE RunHandler(r, {})

\* next written with this.middlewares[++index]: the step at the index it
\* starts from is passed over, and past the end the handler runs
PipelineNextPreInc(r, middlewares, state) ==
  IF r.index < Len(middlewares) /\ r.index + 2 <= Len(middlewares)
    THEN [r EXCEPT !.index = r.index + 1,
                   !.stack = Append(r.stack,
                               Frame(middlewares[r.index + 2], r.index + 2)),
                   !.trace = Append(r.trace,
                               Event(middlewares[r.index + 2], r.index + 2, state))]
    ELSE RunHandler([r EXCEPT !.index = IF r.index < Len(middlewares)
                                          THEN r.index + 1 ELSE r.index],
                    state)

\* the closure `next` of MiddlewarePipeline.execute; state is stateCtx.state,
\* the pipeline's initialState object.  next is declared without parameters:
\* what a step passes to it is dropped.
PipelineNext(r, middlewares, state) ==
  IF r.index < Len(middlewares)
    THEN [r EXCEPT !.index = r.index + 1,
                   !.stack = Append(r.stack,
                               Frame(middlewares[r.index + 1], r.index + 1)),
                   !.trace = Append(r.trace,
                               Event(middlewares[r.index + 1], r.index + 1, state))]
    ELSE RunHandler(r, state)

Top(r) == r.stack[Len(r.stack)]
TopOp(r) == Prog(Top(r).fn)[Top(r).pos]

\* the message of the Error of dispatch
MultipleNext == <<"next() called multiple times">>

\* dispatch(i) of the middleware combineMiddleware(...middlewares) returns;
\* r.chain is middlewares, r.index the variable `index`, and the outer
\* next() runs what the combined middleware was called in front of
dispatch(r, i) ==
  IF i <= r.index
    THEN Unwind(r, MultipleNext)
    ELSE IF i + 1 > Len(r.chain)
      THEN RunHandler([r EXCEPT !.index = i], {})
      ELSE [r EXCEPT !.index = i,
                     !.stack = Append(r.stack, Frame(r.chain[i + 1], i + 1)),
                     !.trace = Append(r.trace, Event(r.chain[i + 1], i + 1, {}))]

\* next() as the running request sees it; the next a combined middleware
\* hands to middlewares[i] is () => dispatch(i + 1)
CallNext(r) ==
  IF r.kind = "pipeline"
    THEN PipelineNext(r, pipes[r.pipe].middlewares, pipes[r.pipe].initialState)
  ELSE IF r.kind = "combined"
    THEN dispatch(r, Top(r).idx)
    ELSE ChainNext(r, r.chain)


\* a return statement that hands on what next() gave, as it was
ReturnedUnchanged(frame, op) ==
  IF op = "ret401" THEN Resp401 ELSE frame.res

\* the Response a middleware returns at a return statement
Returned(frame, op) ==
  CASE op = "ret"    -> frame.res
    [] op = "retHdr" -> SetHeader(frame.res)
    [] op = "ret401" -> Resp401

\* ---------------------------------------------------------------- parseBody
\* options.uploads: maxFileSize and maxFiles are 0 and allowedTypes is not
\* given where the application left them out
DefaultMaxFileSize == 10485760
DefaultMaxFiles == 10
DefaultUploads ==
  [maxFileSize |-> DefaultMaxFileSize, maxFiles |-> DefaultMaxFiles,
   allowedTypes |-> [given |-> TRUE,
                     types |-> {"image/*", "application/pdf", "text/*"}]]

\* new Imphnen({uploads: {maxFiles: 1}}): ...options replaces the whole
\* uploads object of the defaults
OneFileUploads ==
  [maxFileSize |-> 0, maxFiles |-> 1,
   allowedTypes |-> [given |-> FALSE, types |-> {}]]

\* a request body: its content-type and the File entries of its form data
NoBody   == [ctype |-> "", files |-> <<>>]
JsonBody == [ctype |-> "application/json", files |-> <<>>]
Multipart(files) == [ctype |-> "multipart/form-data", files |-> files]
FilePdf  == [name |-> "a.pdf", size |-> 1, type |-> "application/pdf"]
FileBig  == [name |-> "b.pdf", size |-> DefaultMaxFileSize + 1,
             type |-> "application/pdf"]
FileMp4  == [name |-> "c.mp4", size |-> 1, type |-> "video/mp4"]
Bodies ==
  {NoBody, JsonBody, Multipart(<<FilePdf>>), Multipart(<<FileBig>>),
   Multipart(<<FileMp4>>), Multipart(<<FilePdf, FilePdf>>)}

NoFiles == [defined |-> FALSE, n |-> 0]

\* the validation of one File: the text of the Error it throws, <<>> if none
Violation(file, opts) ==
  IF opts.maxFileSize # 0 /\ file.size > opts.maxFileSize
    THEN <<"exceeds maximum size", file.name>>
  ELSE IF opts.allowedTypes.given /\ file.type \notin opts.allowedTypes.types
    THEN <<"type is not allowed", file.type>>
  ELSE <<>>

\* the loop over formData.entries(): the first File that fails validation
RECURSIVE FirstViolation(_, _, _)
FirstViolation(files, i, opts) ==
  IF i > Len(files) THEN <<>>
  ELSE IF Violation(files[i], opts) # <<>> THEN Violation(files[i], opts)
  ELSE FirstViolation(files, i + 1, opts)

\* parseBody accepting every multipart body
parseBodyLax(request, opts) ==
  IF request.ctype = "multipart/form-data"
    THEN [thrown |-> FALSE, message |-> <<>>, body |-> "form",
          files |-> [defined |-> TRUE, n |-> Len(request.files)]]
    ELSE [thrown |-> FALSE, message |-> <<>>,
          body |-> IF request.ctype = "application/json" THEN "json" ELSE "null",
          files |-> NoFiles]

\* parseBody(request, options): what it returns, or the Error it throws
parseBody(request, opts) ==
  IF request.ctype = "multipart/form-data"
    THEN LET v == FirstViolation(request.files, 1, opts)
             inner == IF v # <<>> THEN v
                      ELSE IF opts.maxFiles # 0
                                /\ Len(request.files) > opts.maxFiles
                        THEN <<"Too many files">>
                      ELSE <<>>
         IN  IF inner # <<>>
               THEN [thrown |-> TRUE, message |-> <<UploadMarker>> \o inner,
                     body |-> "null", files |-> NoFiles]
               ELSE [thrown |-> FALSE, message |-> <<>>, body |-> "form",
                     files |-> [defined |-> TRUE, n |-> Len(request.files)]]
    ELSE [thrown |-> FALSE, message |-> <<>>,
          body |-> IF request.ctype = "application/json" THEN "json" ELSE "null",
          files |-> NoFiles]

\* the options of the constructor: cors is false unless the application
\* passes it
DefaultOptions == [cors |-> CorsFalse, uploads |-> DefaultUploads]

\* ---------------------------------------------------------------- rateLimit
\* no middleware has been made by BuiltinMiddleware.rateLimit
NoLimit == [made |-> FALSE, windowMs |-> 0, maxRequests |-> 0]

\* new Map(): no key has an entry
NoEntries == [k \in {} |-> 0]

\* store.set(key, value)
MapSet(map, key, value) ==
  [k \in DOMAIN map \cup {key} |-> IF k = key THEN value ELSE map[k]]

\* options.keyGenerator?.(ctx) || ctx.headers.get('x-forwarded-for') ||
\* ctx.headers.get('x-real-ip') || 'unknown', no keyGenerator being given;
\* a header the request does not have is ""
KeyOf(headers) == OrElse(headers.xff, OrElse(headers.xri, "unknown"))

\* the window of an entry has expired, taken from the reset time on
ExpiredAtReset(current, time) == time >= current.resetTime

\* now > current.resetTime
Expired(current, time) == time > current.resetTime

\* Math.ceil(ms / 1000)
CeilSeconds(ms) == IF ms <= 0 THEN 0 ELSE (ms + 999) \div 1000

\* the body of the middleware up to its return statement, for a request
\* with the key at the time: the Map it leaves, whether it calls next(), and
\* the status and retryAfter of the Response it builds where it does not
Limited(map, opts, key, time) ==
  IF key \notin DOMAIN map \/ Expired(map[key], time)
    THEN [store |-> MapSet(map, key, [count |-> 1,
                                      resetTime |-> time + opts.windowMs]),
          next |-> TRUE, status |-> 0, retryAfter |-> 0]
  ELSE IF map[key].count >= opts.maxRequests
    THEN [store |-> map, next |-> FALSE, status |-> 429,
          retryAfter |-> CeilSeconds(map[key].resetTime - time)]
  ELSE [store |-> [map EXCEPT ![key].count = @ + 1],
        next |-> TRUE, status |-> 0, retryAfter |-> 0]

\* no call of the path functions is under way
NoCall == [pattern |-> <<>>, pathname |-> <<>>, called |-> {},
           matches |-> FALSE, params |-> [thrown |-> FALSE, map |-> {}],
           entries |-> <<>>, query |-> {}]

\* new Imphnen(o), and u the call of the path functions
Constructed(o, u) ==
  /\ globalMiddlewares = <<>>
  /\ globalPipeline = Create({})
  /\ routes = <<>>
  /\ pipelineRoutes = <<>>
  /\ pipes = <<>>
  /\ req = Idle
  /\ useLog = <<>>
  /\ lineage = <<>>
  /\ options = o
  /\ util = u
  /\ other = Idle
  /\ context = NewContext
  /\ regLog = <<>>
  /\ limit = NoLimit
  /\ store = NoEntries
  /\ now = 0
  /\ arrivals = <<>>

Init == Constructed(DefaultOptions, NoCall)

\* ------------------------------------------------------------ registration
\* The application registers while no request is being handled (the route
\* table is written at startup and between requests).
Quiet == req.pc = "idle" /\ other.pc = "idle"

\* Imphnen.use(middleware) with a function
Use(m) ==
  /\ Quiet
  /\ Len(useLog) < MaxUse
  /\ IF Arity(m) = 2
       THEN /\ globalPipeline' = UseNew(globalPipeline, m)
            /\ UNCHANGED globalMiddlewares
       ELSE /\ globalMiddlewares' = Append(globalMiddlewares, m)
            /\ UNCHANGED globalPipeline
  /\ useLog' = Append(useLog, m)
  /\ UNCHANGED <<regLog, limiter, other, context, options, util, routes, pipelineRoutes, pipes, req, lineage>>

\* app.pipeline(s) / MiddlewarePipeline.create(s)
PipelineCreate(s) ==
  /\ Quiet
  /\ Len(pipes) < MaxPipes
  /\ pipes' = Append(pipes, Create(s))
  /\ lineage' = Append(lineage, [base |-> 0, step |-> "", decl |-> s])
  /\ UNCHANGED <<regLog, limiter, other, context, options, util, globalMiddlewares, globalPipeline, routes,
                 pipelineRoutes, req, useLog>>

\* p.use(m) on a pipeline object
PipelineUse(p, m) ==
  /\ Quiet
  /\ Len(pipes) < MaxPipes
  /\ Len(pipes[p].middlewares) < MaxSteps
  /\ pipes' = UsePipes(pipes, p, m)
  /\ lineage' = Append(lineage, [base |-> p, step |-> m, decl |-> lineage[p].decl])
  /\ UNCHANGED <<regLog, limiter, other, context, options, util, globalMiddlewares, globalPipeline, routes,
                 pipelineRoutes, req, useLog>>

NumRoutes == Len(routes) + Len(pipelineRoutes)

\* Imphnen.route(method, path, pipeline, handler); the handler of a route is
\* known by the rank of its registration
Room(max) == NumRoutes < max

RouteH(method, path, p, h) ==
  pipelineRoutes' = Append(pipelineRoutes,
    [method |-> method, path |-> path, pipeline |-> p,
     handler |-> NumRoutes + 1, hfn |-> h])

\* the same with a handler that returns its Response
Route(method, path, p) == RouteH(method, path, p, "ok")

\* the methods of the verbs an application registers routes with
Verbs == {"GET", "POST"}

\* verb(path, handler): args.length === 1
RegHandler(method, path) ==
  /\ Quiet
  /\ pipes' = Append(pipes, Create({}))
  /\ lineage' = Append(lineage, [base |-> 0, step |-> "", decl |-> {}])
  /\ Route(method, path, Len(pipes) + 1)
  /\ UNCHANGED <<regLog, limiter, other, context, options, util, globalMiddlewares, globalPipeline, routes, req, useLog>>

\* the pipeline objects after app.pipeline(s).use(steps[1])...use(steps[n]);
\* the last of them is the value of the expression
RECURSIVE Built(_, _, _, _)
Built(pool, s, steps, n) ==
  IF n = 0
    THEN Append(pool, Create(s))
    ELSE LET before == Built(pool, s, steps, n - 1)
         IN  UsePipes(before, Len(before), steps[n])

\* history of the objects made by Built
BuiltLineage(s, steps) ==
  [k \in 1..(Len(steps) + 1) |->
     IF k = 1 THEN [base |-> 0, step |-> "", decl |-> s]
     ELSE [base |-> Len(pipes) + k - 1, step |-> steps[k - 1], decl |-> s]]

\* verb(path, app.pipeline(s).use(...)...., handler): args.length === 2 and
\* args[0] has execute; h is what the handler does
RegPipelineH(method, path, s, steps, h) ==
  /\ Quiet
  /\ pipes' = Built(pipes, s, steps, Len(steps))
  /\ lineage' = lineage \o BuiltLineage(s, steps)
  /\ RouteH(method, path, Len(pipes) + Len(steps) + 1, h)
  /\ UNCHANGED <<regLog, limiter, other, context, options, util, globalMiddlewares, globalPipeline, routes, req, useLog>>

\* the same with a handler that returns its Response
RegPipeline(method, path, s, steps) ==
  /\ Quiet
  /\ pipes' = Built(pipes, s, steps, Len(steps))
  /\ lineage' = lineage \o BuiltLineage(s, steps)
  /\ Route(method, path, Len(pipes) + Len(steps) + 1)
  /\ UNCHANGED <<regLog, limiter, other, context, options, util, globalMiddlewares, globalPipeline, routes, req, useLog>>

\* verb(path, mw1, ..., mwk, handler) -> addRoute; h is what the handler
\* does
RegMiddlewareH(method, path, mws, h) ==
  /\ Quiet
  /\ routes' = Append(routes,
       [method |-> method, path |-> path, handler |-> NumRoutes + 1,
        hfn |-> h, middlewares |-> mws])
  /\ UNCHANGED <<regLog, limiter, other, context, options, util, globalMiddlewares, globalPipeline, pipelineRoutes, pipes,
                 req, useLog, lineage>>

\* the same with a handler that returns its Response
RegMiddleware(method, path, mws) ==
  /\ Quiet
  /\ routes' = Append(routes,
       [method |-> method, path |-> path, handler |-> NumRoutes + 1,
        hfn |-> "ok", middlewares |-> mws])
  /\ UNCHANGED <<regLog, limiter, other, context, options, util, globalMiddlewares, globalPipeline, pipelineRoutes, pipes,
                 req, useLog, lineage>>

\* the value of an argument of a verb: a function (known by its name), or
\* the MiddlewarePipeline object app.pipeline(s).use(steps[1])...use(steps[n])
Fn(f) == [t |-> "function", f |-> f, s |-> {}, steps |-> <<>>, has |-> {}]
Pipe(s, steps) ==
  [t |-> "object", f |-> "", s |-> s, steps |-> steps,
   has |-> {"use", "useMany", "execute"}]

\* a test of the arguments that no call passes
IsPipelineArgsNever(args) == FALSE

\* args.length === 2 && typeof args[0] === 'object' && 'execute' in args[0]
IsPipelineArgs(args) ==
  Len(args) = 2 /\ args[1].t = "object" /\ "execute" \in args[1].has

\* addRoute written with this.routes.unshift({...})
addRouteFirst(method, path, handlers) ==
  routes' = <<[method |-> method, path |-> path, handler |-> NumRoutes + 1,
               hfn |-> handlers[Len(handlers)].f,
               middlewares |-> [k \in 1..(Len(handlers) - 1) |-> handlers[k].f]]>>
            \o routes

\* addRoute(method, path, handlers): handler = handlers[handlers.length - 1],
\* middlewares = handlers.slice(0, -1)
addRoute(method, path, handlers) ==
  routes' = Append(routes,
    [method |-> method, path |-> path, handler |-> NumRoutes + 1,
     hfn |-> handlers[Len(handlers)].f,
     middlewares |-> [k \in 1..(Len(handlers) - 1) |-> handlers[k].f]])

\* get / post / put / delete / patch (path, ...args)
Verb(method, path, args) ==
  /\ Quiet
  /\ regLog' = Append(regLog, [method |-> method, path |-> path, args |-> args])
  /\ IF Len(args) = 1
       THEN /\ pipes' = Append(pipes, Create({}))
            /\ lineage' = Append(lineage, [base |-> 0, step |-> "", decl |-> {}])
            /\ RouteH(method, path, Len(pipes) + 1, args[1].f)
            /\ UNCHANGED routes
       ELSE IF IsPipelineArgs(args)
         THEN /\ pipes' = Built(pipes, args[1].s, args[1].steps, Len(args[1].steps))
              /\ lineage' = lineage \o BuiltLineage(args[1].s, args[1].steps)
              /\ RouteH(method, path, Len(pipes) + Len(args[1].steps) + 1, args[2].f)
              /\ UNCHANGED routes
         ELSE /\ addRoute(method, path, args)
              /\ UNCHANGED <<pipelineRoutes, pipes, lineage>>
  /\ UNCHANGED <<limiter, other, context, options, util, globalMiddlewares,
                 globalPipeline, req, useLog>>

\* ------------------------------------------------------------ the dispatcher
Fresh(method, path) ==
  [Idle EXCEPT !.pc = "running", !.method = method, !.path = path,
               !.phases = <<"Received">>]

\* this.options.cors && method === 'OPTIONS'
Preflight(method) == options.cors.t # "false" /\ method = "OPTIONS"

\* the body methods and GET
BodyMethodsAndGet == {"GET", "POST", "PUT", "PATCH"}

\* ['POST', 'PUT', 'PATCH'].includes(method)
BodyMethods == {"POST", "PUT", "PATCH"}

\* the try block up to createContext, for the route found (kind, rt, entry):
\* parseURLParams, parseQuery, parseBody, createContext; a URIError of
\* parseURLParams goes to the catch block, which answers 500
Matching(method, path, kind, rt, entry) ==
  LET found == [Fresh(method, path) EXCEPT
                  !.kind = kind, !.route = rt, !.handler = entry.handler,
                  !.hfn = entry.hfn,
                  !.phases = <<"Received", "Matched", "Parsing">>]
      parse == parseURLParams(entry.path, path)
  IN  IF parse.thrown
        THEN [found EXCEPT !.pc = "failed"]
        ELSE [found EXCEPT !.params = parse.map]

\* the message of the URIError of decodeURIComponent
URIMalformed == <<"URI malformed">>

\* createContext and the call of executeMiddlewareChain / pipeline.execute,
\* which enters the first step or the handler
Start(ctx) ==
  CallNext([ctx EXCEPT !.pc = "running",
                       !.staging = NewContext,
                       !.phases = Append(@, "Dispatching")])

\* the try block after the route is found: a URIError goes to the catch
\* block; a request of a body method awaits parseBody; any other has
\* body null and files undefined and goes on to the chain at once
Enter(ctx) ==
  IF ctx.pc = "failed" THEN Caught(ctx, URIMalformed)
  ELSE IF ctx.method \in BodyMethods THEN [ctx EXCEPT !.pc = "parsing"]
  ELSE Start(ctx)

\* handleRequest with CORS configured and method OPTIONS: handleCors
DispatchPreflight(method, path) ==
  /\ req.pc = "idle"
  /\ Preflight(method)
  /\ req' = [Fresh(method, path) EXCEPT !.pc = "done", !.result = handleCors(options.cors)]
  /\ UNCHANGED <<regLog, limiter, other, context, options, util, globalMiddlewares, globalPipeline, routes,
                 pipelineRoutes, pipes, useLog, lineage>>

\* handleRequest finds a pipeline route: handlePipelineRoute, execute
DispatchPipeline(method, path) ==
  /\ req.pc = "idle"
  /\ ~Preflight(method)
  /\ LET pr == FindRoute(pipelineRoutes, method, path) IN
       /\ pr # 0
       /\ LET ctx == [Matching(method, path, "pipeline", pr, pipelineRoutes[pr])
                       EXCEPT !.pipe = pipelineRoutes[pr].pipeline]
          IN  req' = Enter(ctx)
  /\ UNCHANGED <<regLog, limiter, other, context, options, util, globalMiddlewares, globalPipeline, routes,
                 pipelineRoutes, pipes, useLog, lineage>>

\* handleRequest with the plain-route table looked up whatever the
\* pipeline-route table holds
DispatchPlainFirst(method, path) ==
  /\ req.pc = "idle"
  /\ ~Preflight(method)
  /\ LET rt == FindRoute(routes, method, path) IN
       /\ rt # 0
       /\ LET ctx == [Matching(method, path, "plain", rt, routes[rt])
                       EXCEPT !.chain = AllMiddlewares(globalMiddlewares,
                                                       routes[rt].middlewares)]
          IN  req' = Enter(ctx)
  /\ UNCHANGED <<regLog, limiter, other, context, options, util, globalMiddlewares, globalPipeline, routes,
                 pipelineRoutes, pipes, useLog, lineage>>

\* handleRequest finds no pipeline route and a plain route
DispatchPlain(method, path) ==
  /\ req.pc = "idle"
  /\ ~Preflight(method)
  /\ FindRoute(pipelineRoutes, method, path) = 0
  /\ LET rt == FindRoute(routes, method, path) IN
       /\ rt # 0
       /\ LET ctx == [Matching(method, path, "plain", rt, routes[rt])
                       EXCEPT !.chain = AllMiddlewares(globalMiddlewares,
                                                       routes[rt].middlewares)]
          IN  req' = Enter(ctx)
  /\ UNCHANGED <<regLog, limiter, other, context, options, util, globalMiddlewares, globalPipeline, routes,
                 pipelineRoutes, pipes, useLog, lineage>>

\* no route in either table: 404
DispatchNotFound(method, path) ==
  /\ req.pc = "idle"
  /\ ~Preflight(method)
  /\ FindRoute(pipelineRoutes, method, path) = 0
  /\ FindRoute(routes, method, path) = 0
  /\ req' = [Fresh(method, path) EXCEPT !.pc = "done", !.result = Resp404,
                                        !.phases = Append(@, "NotFound")]
  /\ UNCHANGED <<regLog, limiter, other, context, options, util, globalMiddlewares, globalPipeline, routes,
                 pipelineRoutes, pipes, useLog, lineage>>

\* await parseBody(request, this.options.uploads) settles for the request
\* whose body is `request`
ParseBody(request) ==
  /\ req.pc = "parsing"
  /\ LET out == parseBody(request, options.uploads)
         r == [req EXCEPT !.parses = @ + 1, !.request = request,
                          !.entered.parse = Len(req.trace)]
     IN  req' = IF out.thrown
                  THEN Caught(r, out.message)
                  ELSE Start([r EXCEPT !.body = out.body, !.files = out.files])
  /\ UNCHANGED <<regLog, limiter, other, context, options, util, globalMiddlewares, globalPipeline, routes,
                 pipelineRoutes, pipes, useLog, lineage>>

\* p.execute(ctx, handler) called on a pipeline object directly
Execute(p) ==
  /\ req.pc = "idle"
  /\ req' = CallNext([Idle EXCEPT !.pc = "running", !.kind = "pipeline",
                                  !.pipe = p])
  /\ UNCHANGED <<regLog, limiter, other, context, options, util, globalMiddlewares, globalPipeline, routes,
                 pipelineRoutes, pipes, useLog, lineage>>

\* the running middleware calls next(...)
MwCall ==
  /\ req.pc = "running"
  /\ req.stack # <<>>
  /\ TopOp(req) \in CallOps
  /\ LET n == Len(req.stack)
         called == [req EXCEPT !.stack[n].pos = @ + 1,
                               !.stack[n].calls = @ + 1,
                               !.dbl = @ \/ req.stack[n].calls >= 1,
                               !.passed = Append(@, NextArg(TopOp(req)))]
     IN  req' = CallNext(called)
  /\ UNCHANGED <<regLog, limiter, other, context, options, util, globalMiddlewares, globalPipeline, routes,
                 pipelineRoutes, pipes, useLog, lineage>>

\* the running step of a pipeline assigns to a key of ctx.state, which is
\* the initialState object of the pipeline (stateCtx.state = this.initialState)
MwAssign ==
  /\ req.pc = "running"
  /\ req.stack # <<>>
  /\ req.kind = "pipeline"
  /\ TopOp(req) = "assign"
  /\ pipes' = [pipes EXCEPT ![req.pipe].initialState = Assign(@, "u", 1)]
  /\ req' = [req EXCEPT !.stack[Len(req.stack)].pos = @ + 1,
                        !.written = @ \cup {<<"u", 1>>}]
  /\ UNCHANGED <<regLog, limiter, other, context, options, util, globalMiddlewares, globalPipeline, routes, pipelineRoutes,
                 useLog, lineage>>

\* ctx.set.headers(headers) and ctx.set.status(status) of a step, on the
\* responseHeaders and responseStatus of the Context
StagedBy(c, k, v, status) ==
  [c EXCEPT !.responseHeaders = HeadersSet(@, k, v),
            !.responseStatus = status,
            !.log = @ \o <<[op |-> "headers", k |-> k, v |-> v, status |-> 0],
                           [op |-> "status", k |-> "", v |-> "",
                            status |-> status]>>]

\* the running step stages a header and a status for the request of /a
MwStage ==
  /\ req.pc = "running"
  /\ req.stack # <<>>
  /\ TopOp(req) = "stage"
  /\ req' = [req EXCEPT
               !.stack[Len(req.stack)].pos = @ + 1,
               !.staging = IF <<"id", "a">> \in req.params
                             THEN StagedBy(@, "X-A", "1", 201) ELSE @]
  /\ UNCHANGED <<regLog, limiter, other, context, options, util,
                 globalMiddlewares, globalPipeline, routes, pipelineRoutes,
                 pipes, useLog, lineage>>

\* the running middleware returns a Response
MwReturn ==
  /\ req.pc = "running"
  /\ req.stack # <<>>
  /\ TopOp(req) \in RetOps
  /\ LET n == Len(req.stack)
         f == req.stack[n]
         popped == [req EXCEPT !.stack = SubSeq(req.stack, 1, n - 1),
                               !.shorted = IF f.calls = 0 THEN @ \cup {f.idx} ELSE @]
     IN  req' = Deliver(popped, Returned(f, TopOp(req)))
  /\ UNCHANGED <<regLog, limiter, other, context, options, util, globalMiddlewares, globalPipeline, routes,
                 pipelineRoutes, pipes, useLog, lineage>>

\* the running middleware throws
MwThrow ==
  /\ req.pc = "running"
  /\ req.stack # <<>>
  /\ TopOp(req) \in ThrowOps
  /\ LET n == Len(req.stack)
         popped == [req EXCEPT !.stack = SubSeq(req.stack, 1, n - 1)]
     IN  req' = Unwind(popped, Raised(TopOp(req)))
  /\ UNCHANGED <<regLog, limiter, other, context, options, util, globalMiddlewares, globalPipeline, routes,
                 pipelineRoutes, pipes, useLog, lineage>>

\* the Response has gone to the client; the request's Context is discarded
Finish ==
  /\ req.pc = "done"
  /\ req' = Idle
  /\ UNCHANGED <<regLog, limiter, other, context, options, util, globalMiddlewares, globalPipeline, routes,
                 pipelineRoutes, pipes, useLog, lineage>>

\* sequences of 1..MaxRouteMw middleware functions
MwLists == UNION {[1..k -> RouteFns] : k \in 1..MaxRouteMw}

\* sequences of 0..MaxRouteSteps pipeline steps
StepLists == {<<>>} \cup UNION {[1..k -> RouteStepFns] : k \in 1..MaxRouteSteps}

\* an application: registration, then requests through handleRequest
Next ==
  \/ \E m \in UseFns : Use(m)
  \/ Room(MaxRoutes) /\ \E path \in Patterns : RegHandler("GET", path)
  \/ Room(MaxRoutes) /\
       \E path \in Patterns, s \in InitialStates, steps \in StepLists :
          RegPipeline("GET", path, s, steps)
  \/ Room(MaxRoutes) /\
       \E path \in Patterns, mws \in MwLists : RegMiddleware("GET", path, mws)
  \/ \E path \in Paths : DispatchPipeline("GET", path)
  \/ \E path \in Paths : DispatchPlain("GET", path)
  \/ \E path \in Paths : DispatchNotFound("GET", path)
  \/ MwCall
  \/ MwAssign
  \/ MwReturn
  \/ Finish

Spec == Init /\ [][Next]_vars

\* pipelines on their own: built with create and use, run with execute
NextPipe ==
  \/ \E s \in InitialStates : PipelineCreate(s)
  \/ \E p \in 1..Len(pipes), m \in StepFns : PipelineUse(p, m)
  \/ \E p \in 1..Len(pipes) : Execute(p)
  \/ MwCall
  \/ MwAssign
  \/ MwReturn
  \/ Finish

SpecPipe == Init /\ [][NextPipe]_vars

\* ------------------------------------------------------- the route tables
\* an application with or without CORS that registers routes for two
\* methods in the three forms, and requests of three methods
InitRoute ==
  \E c \in {CorsFalse, CorsTrue} :
    Constructed([DefaultOptions EXCEPT !.cors = c], NoCall)

PatRoot  == <<Lit(""), Lit("")>>           \* "/"
PathRoot == <<Lit(""), Lit("")>>           \* "/"
PathEsc  == <<Lit(""), Lit("%41")>>        \* "/%41"
PathBad  == <<Lit(""), Lit("%")>>          \* "/%"
PathAX   == <<Lit(""), Lit("a"), Lit("x")>> \* "/a/x"

Methods    == {"GET", "POST", "OPTIONS"}
RoutePatterns == {PatA, PatId, PatRoot}
RoutePaths == {PathA, PathRoot, PathEsc, PathBad, PathAX}

NextRoute ==
  \/ Use("deny1")
  \/ Room(MaxTable) /\
       \E method \in Verbs, path \in RoutePatterns : RegHandler(method, path)
  \/ Room(MaxTable) /\
       \E method \in Verbs, path \in RoutePatterns :
          RegPipeline(method, path, {}, <<"hdr">>)
  \/ Room(MaxTable) /\
       \E method \in Verbs, path \in RoutePatterns :
          RegMiddleware(method, path, <<"hdr">>)
  \/ \E method \in Methods, path \in RoutePaths : DispatchPreflight(method, path)
  \/ \E method \in Methods, path \in RoutePaths : DispatchPipeline(method, path)
  \/ \E method \in Methods, path \in RoutePaths : DispatchPlain(method, path)
  \/ \E method \in Methods, path \in RoutePaths : DispatchNotFound(method, path)
  \/ ParseBody(NoBody)
  \/ MwCall
  \/ MwReturn
  \/ Finish

SpecRoute == InitRoute /\ [][NextRoute]_vars

\* ------------------------------------------- applications whose steps fail
\* one route, whose steps may throw or catch and whose handler may throw;
\* requests with bodies the parser accepts or rejects
FailFns   == {"hdr", "guard", "boom", "upErr"}
FailLists == {<<>>} \cup UNION {[1..k -> FailFns] : k \in 1..MaxFailSteps}
NoRoute   == routes = <<>> /\ pipelineRoutes = <<>>

InitFail ==
  \E u \in {DefaultUploads, OneFileUploads}, c \in {CorsFalse, CorsTrue} :
    Constructed([cors |-> c, uploads |-> u], NoCall)

NextFail ==
  \/ NoRoute /\
       \E method \in Verbs, mws \in FailLists, h \in HandlerFns :
          RegMiddlewareH(method, PatA, mws, h)
  \/ NoRoute /\
       \E method \in Verbs, steps \in FailLists, h \in HandlerFns :
          RegPipelineH(method, PatA, {}, steps, h)
  \/ \E method \in Methods, path \in Paths : DispatchPreflight(method, path)
  \/ \E method \in Methods, path \in Paths : DispatchPipeline(method, path)
  \/ \E method \in Methods, path \in Paths : DispatchPlain(method, path)
  \/ \E method \in Methods, path \in Paths : DispatchNotFound(method, path)
  \/ \E request \in Bodies : ParseBody(request)
  \/ MwCall
  \/ MwReturn
  \/ MwThrow
  \/ Finish

SpecFail == InitFail /\ [][NextFail]_vars

\* the same applications where parseBody, every step and every handler
\* terminate: a settled await is resumed
SpecLive ==
  /\ InitFail /\ [][NextFail]_vars
  /\ WF_vars(\E request \in Bodies : ParseBody(request))
  /\ WF_vars(MwCall)
  /\ WF_vars(MwReturn)
  /\ WF_vars(MwThrow)

\* ------------------------------------------------------- the verbs
\* an application that calls use and the verbs with arguments of the three
\* shapes, and requests for what it registered
ArgFns == {"hdr", "deny"}
ArgPipes == {Pipe({}, <<>>), Pipe({}, <<"setU">>)}
ArgLists ==
  {<<Fn("ok")>>}
    \cup {<<p, Fn("ok")>> : p \in ArgPipes}
    \cup UNION {{Append([i \in 1..k |-> Fn(mws[i])], Fn("ok")) : mws \in [1..k -> ArgFns]}
                  : k \in 1..(MaxArgs - 1)}

NextReg ==
  \/ Use("deny1")
  \/ Room(MaxTable) /\
       \E method \in Verbs, args \in ArgLists : Verb(method, PatA, args)
  \/ \E method \in Verbs : DispatchPipeline(method, PathA)
  \/ \E method \in Verbs : DispatchPlain(method, PathA)
  \/ \E method \in Verbs : DispatchNotFound(method, PathA)
  \/ ParseBody(NoBody)
  \/ MwCall
  \/ MwAssign
  \/ MwReturn
  \/ Finish

SpecReg == Init /\ [][NextReg]_vars

\* ------------------------------------------------- applications with CORS
\* the values of options.cors an application is constructed with
Origins    == {Undefined, Str(""), Str("o1"), Arr(<<>>), Arr(<<"o1", "o2">>)}
MethodOpts == {Undefined, Arr(<<>>), Arr(<<"GET", "POST">>)}
HeaderOpts == {Undefined, Arr(<<>>), Arr(<<"X-A", "X-B">>)}
CorsConfigs ==
  {CorsFalse, CorsTrue}
    \cup {CorsObject(o, m, h) : o \in Origins, m \in MethodOpts, h \in HeaderOpts}

InitCors ==
  \E c \in CorsConfigs :
    Constructed([DefaultOptions EXCEPT !.cors = c], NoCall)

\* routes of methods GET and OPTIONS (app.route(method, path, pipeline,
\* handler)), and requests of both methods
CorsMethods == {"GET", "OPTIONS"}

NextCors ==
  \/ Room(MaxTable) /\
       \E method \in CorsMethods : RegPipeline(method, PatA, {}, <<"hdr">>)
  \/ \E method \in CorsMethods, path \in Paths : DispatchPreflight(method, path)
  \/ \E method \in CorsMethods, path \in Paths : DispatchPipeline(method, path)
  \/ \E method \in CorsMethods, path \in Paths : DispatchNotFound(method, path)
  \/ MwCall
  \/ MwReturn
  \/ Finish

SpecCors == InitCors /\ [][NextCors]_vars

\* ------------------------------------------- the path functions on their own
InitMatch ==
  \E pattern \in PatternSet, pathname \in PathSet :
    Constructed(DefaultOptions,
                [NoCall EXCEPT !.pattern = pattern, !.pathname = pathname])

\* matchRoute(pattern, pathname)
MatchRoute ==
  /\ "matchRoute" \notin util.called
  /\ util' = [util EXCEPT !.called = @ \cup {"matchRoute"},
                          !.matches = matchRoute(util.pattern, util.pathname)]
  /\ UNCHANGED <<regLog, limiter, globalMiddlewares, globalPipeline, routes, pipelineRoutes,
                 pipes, req, useLog, lineage, options, other, context>>

\* parseURLParams(pattern, pathname)
ParseURLParams ==
  /\ "parseURLParams" \notin util.called
  /\ util' = [util EXCEPT !.called = @ \cup {"parseURLParams"},
                          !.params = parseURLParams(util.pattern, util.pathname)]
  /\ UNCHANGED <<regLog, limiter, globalMiddlewares, globalPipeline, routes, pipelineRoutes,
                 pipes, req, useLog, lineage, options, other, context>>

NextMatch == MatchRoute \/ ParseURLParams

SpecMatch == InitMatch /\ [][NextMatch]_vars

\* --------------------------------------------------- parseQuery on its own
\* the keys and values of the search parameters of a request URL
QueryKeys   == {"a", "b", "__proto__"}
QueryValues == {"1", "x"}
QueryEntries ==
  UNION {[1..n -> QueryKeys \X QueryValues] : n \in 0..MaxEntries}

InitQuery ==
  \E entries \in QueryEntries :
    Constructed(DefaultOptions, [NoCall EXCEPT !.entries = entries])

\* parseQuery(url)
ParseQuery ==
  /\ "parseQuery" \notin util.called
  /\ util' = [util EXCEPT !.called = @ \cup {"parseQuery"},
                          !.query = parseQuery(util.entries)]
  /\ UNCHANGED <<globalMiddlewares, globalPipeline, routes, pipelineRoutes,
                 pipes, req, useLog, lineage, options, other, context,
                 regLog, limiter>>

SpecQuery == InitQuery /\ [][ParseQuery]_vars

\* ------------------------------------------- chains whose steps call again
\* one route, plain or with a pipeline, whose steps may call next() twice or
\* not at all
ChainFns == {"hdr", "deny", "twice"}
ChainLists == UNION {[1..n -> ChainFns] : n \in 0..MaxChain}

NextChain ==
  \/ NoRoute /\ \E mws \in ChainLists : RegMiddleware("GET", PatA, mws)
  \/ NoRoute /\ \E steps \in ChainLists : RegPipeline("GET", PatA, {}, steps)
  \/ DispatchPipeline("GET", PathA)
  \/ DispatchPlain("GET", PathA)
  \/ MwCall
  \/ MwReturn
  \/ Finish

SpecChain == Init /\ [][NextChain]_vars

\* ------------------------------------------- combineMiddleware on its own
\* the middleware an application combines
CombineFns == {"hdr", "deny", "twice", "guard", "boom"}
CombineLists == UNION {[1..n -> CombineFns] : n \in 0..MaxCombined}

\* combineMiddleware(...middlewares)(ctx, next): let index = 0; return await
\* dispatch(0)
Combined(middlewares) ==
  /\ req.pc = "idle"
  /\ req' = dispatch([Idle EXCEPT !.pc = "running", !.kind = "combined",
                                  !.chain = middlewares, !.index = 0], 0)
  /\ UNCHANGED <<regLog, limiter, other, context, options, util,
                 globalMiddlewares, globalPipeline, routes, pipelineRoutes,
                 pipes, useLog, lineage>>

NextCombine ==
  \/ \E middlewares \in CombineLists : Combined(middlewares)
  \/ Finish

SpecCombine == Init /\ [][NextCombine]_vars

\* ------------------------------------------- one rateLimit middleware
\* the options an application passes, and the client headers of requests
WindowOpts == {1, 2}
LimitOpts  == {0, 1, 2}
Clients ==
  {[xff |-> "c1", xri |-> ""], [xff |-> "", xri |-> "c1"],
   [xff |-> "", xri |-> ""]}

\* BuiltinMiddleware.rateLimit({windowMs, maxRequests})
RateLimit(windowMs, maxRequests) ==
  /\ ~limit.made
  /\ limit' = [made |-> TRUE, windowMs |-> windowMs,
               maxRequests |-> maxRequests]
  /\ store' = NoEntries
  /\ UNCHANGED <<now, arrivals, globalMiddlewares, globalPipeline, routes,
                 pipelineRoutes, pipes, req, useLog, lineage, options, util,
                 other, context, regLog>>

\* a millisecond passes
Tick ==
  /\ now < MaxNow
  /\ now' = now + 1
  /\ UNCHANGED <<limit, store, arrivals, globalMiddlewares, globalPipeline,
                 routes, pipelineRoutes, pipes, req, useLog, lineage, options,
                 util, other, context, regLog>>

\* a request with the headers enters the middleware, which runs up to its
\* first await (of next()) or returns its 429 Response.  The arrival is
\* recorded with the time, and the reset time of the window it fell in.
Arrive(headers) ==
  /\ limit.made
  /\ Len(arrivals) < MaxArrivals
  /\ LET key == KeyOf(headers)
         out == Limited(store, limit, key, now)
     IN  /\ store' = out.store
         /\ arrivals' = Append(arrivals,
              [key |-> key, at |-> now, next |-> out.next,
               status |-> out.status, retryAfter |-> out.retryAfter,
               window |-> out.store[key].resetTime, settled |-> ~out.next])
  /\ UNCHANGED <<limit, now, globalMiddlewares, globalPipeline, routes,
                 pipelineRoutes, pipes, req, useLog, lineage, options, util,
                 other, context, regLog>>

\* the next() a request awaits settles, and the middleware returns what it
\* got
Settle(i) ==
  /\ ~arrivals[i].settled
  /\ arrivals' = [arrivals EXCEPT ![i].settled = TRUE, ![i].status = 200]
  /\ UNCHANGED <<limit, store, now, globalMiddlewares, globalPipeline, routes,
                 pipelineRoutes, pipes, req, useLog, lineage, options, util,
                 other, context, regLog>>

NextRate ==
  \/ \E windowMs \in WindowOpts, maxRequests \in LimitOpts :
       RateLimit(windowMs, maxRequests)
  \/ Tick
  \/ \E headers \in Clients : Arrive(headers)
  \/ \E i \in 1..Len(arrivals) : Settle(i)

SpecRate == Init /\ [][NextRate]_vars

\* ------------------------------------------------- two requests in flight
\* the event loop leaves the request it runs at an await and takes up the
\* other one
Switch ==
  /\ req.pc # "idle" \/ other.pc # "idle"
  /\ req' = other
  /\ other' = req
  /\ UNCHANGED <<regLog, limiter, globalMiddlewares, globalPipeline, routes, pipelineRoutes,
                 pipes, useLog, lineage, options, util, context>>

TwoFns   == {"hdr", "deny"}
TwoLists == {<<>>} \cup UNION {[1..k -> TwoFns] : k \in 1..MaxTwoSteps}

\* the steps of a pipeline may also write to ctx.state
TwoStepLists ==
  {<<>>} \cup UNION {[1..k -> TwoFns \cup {"setU"}] : k \in 1..MaxTwoSteps}

NextTwo ==
  \/ NoRoute /\ \E mws \in TwoLists : RegMiddleware("GET", PatA, mws)
  \/ NoRoute /\ \E steps \in TwoStepLists : RegPipeline("GET", PatA, {}, steps)
  \/ DispatchPipeline("GET", PathA)
  \/ DispatchPlain("GET", PathA)
  \/ Switch
  \/ MwCall
  \/ MwAssign
  \/ MwReturn
  \/ Finish

SpecTwo == Init /\ [][NextTwo]_vars

\* ------------------------------- two requests in flight that stage
\* one route for /:id whose steps stage for the request of /a, and two
\* requests in flight for /a and /b
StageFns == {"hdr", "stage"}
StageLists == UNION {[1..n -> StageFns] : n \in 0..MaxStageSteps}

NextStage ==
  \/ NoRoute /\ \E mws \in StageLists : RegMiddlewareH("GET", PatId, mws, "json")
  \/ NoRoute /\
       \E steps \in StageLists : RegPipelineH("GET", PatId, {}, steps, "json")
  \/ \E path \in Paths : DispatchPipeline("GET", path)
  \/ \E path \in Paths : DispatchPlain("GET", path)
  \/ Switch
  \/ MwCall
  \/ MwStage
  \/ MwReturn
  \/ Finish

SpecStage == Init /\ [][NextStage]_vars

\* ------------------------------------------------- a Context on its own
\* what a handler stages, passes as init, and gets from serveFile and
\* proxyRequest
HeaderNames == {"X-A", "x-a", "Content-Type"}
HeaderTexts == {"1", "2"}
Statuses    == {200, 201}
Inits ==
  {[status |-> 0, headers |-> <<>>],
   [status |-> 202, headers |-> <<>>],
   [status |-> 0, headers |-> <<<<"X-A", "i">>>>]}
Collaborated ==
  {[status |-> 200, headers |-> {<<"content-type", "application/pdf">>}],
   [status |-> 404, headers |-> {}],
   [status |-> 200, headers |-> {<<"x-a", "up">>}]}

\* ctx.set.headers({[k]: v})
CtxSetHeaders(k, v) ==
  /\ Len(context.log) < MaxStage
  /\ context' = [context EXCEPT
                   !.responseHeaders = HeadersSet(@, k, v),
                   !.log = Append(@, [op |-> "headers", k |-> k, v |-> v,
                                      status |-> 0])]
  /\ UNCHANGED <<regLog, limiter, globalMiddlewares, globalPipeline, routes, pipelineRoutes,
                 pipes, req, useLog, lineage, options, util, other>>

\* ctx.set.status(n)
CtxSetStatus(n) ==
  /\ Len(context.log) < MaxStage
  /\ context' = [context EXCEPT
                   !.responseStatus = n,
                   !.log = Append(@, [op |-> "status", k |-> "", v |-> "",
                                      status |-> n])]
  /\ UNCHANGED <<regLog, limiter, globalMiddlewares, globalPipeline, routes, pipelineRoutes,
                 pipes, req, useLog, lineage, options, util, other>>

\* ctx.json(data, init), ctx.text(text, init), ctx.html(html, init)
CtxBuild(by, init) ==
  /\ context' = [context EXCEPT !.built = BuiltBy(context, by, init)]
  /\ UNCHANGED <<regLog, limiter, globalMiddlewares, globalPipeline, routes, pipelineRoutes,
                 pipes, req, useLog, lineage, options, util, other>>

\* await ctx.file(path, options), serveFile having returned response
CtxFile(response) ==
  /\ context' = [context EXCEPT !.built = OverlaidOn(context, "file", response)]
  /\ UNCHANGED <<regLog, limiter, globalMiddlewares, globalPipeline, routes, pipelineRoutes,
                 pipes, req, useLog, lineage, options, util, other>>

\* await ctx.proxy(options), proxyRequest having returned response
CtxProxy(response) ==
  /\ context' = [context EXCEPT !.built = OverlaidOn(context, "proxy", response)]
  /\ UNCHANGED <<regLog, limiter, globalMiddlewares, globalPipeline, routes, pipelineRoutes,
                 pipes, req, useLog, lineage, options, util, other>>

NextCtx ==
  \/ \E k \in HeaderNames, v \in HeaderTexts : CtxSetHeaders(k, v)
  \/ \E n \in Statuses : CtxSetStatus(n)
  \/ \E by \in {"json", "text", "html"}, init \in Inits : CtxBuild(by, init)
  \/ \E response \in Collaborated : CtxFile(response)
  \/ \E response \in Collaborated : CtxProxy(response)

SpecCtx == Init /\ [][NextCtx]_vars

\* ================================================================== claims
\* number of next(...) calls in the body of a middleware function
NextCalls(f) == Cardinality({k \in 1..Len(Prog(f)) : Prog(f)[k] \in CallOps})

AllCallOnce(fs) == \A k \in 1..Len(fs) : NextCalls(fs[k]) = 1

\* the functions entered by the request, in the order they were entered
Entered(r) == [k \in 1..Len(r.trace) |-> r.trace[k].f]

IsPrefix(a, b) == Len(a) <= Len(b) /\ SubSeq(b, 1, Len(a)) = a

Matched == req.pc # "idle" /\ req.kind # "none"
Done    == req.pc = "done" /\ req.kind # "none"

\* C1: a (ctx, next) middleware registered with app.use that adds a header
\* to the response of next() wraps every matched request, whatever form the
\* route was registered in: the final response carries the header.
C1_GlobalHeaderOnEveryRoute ==
  (/\ Done
   /\ \E i \in 1..Len(useLog) :
        /\ useLog[i] = "hdr" /\ Arity(useLog[i]) = 2
        /\ \A j \in 1..(i - 1) : NextCalls(useLog[j]) > 0)
  => req.result.xtest

\* C2: with a global middleware that returns 401 without calling next(), no
\* request to a registered route runs its handler, and the final response
\* is the 401.
C2_GlobalDenyStopsHandler ==
  (Matched /\ \E i \in 1..Len(useLog) : NextCalls(useLog[i]) = 0)
  => /\ req.hcalls = 0
     /\ req.pc = "done" => req.result.status = 401

\* C3: within one chain execution, once step i has returned a Response
\* without calling next(), no step of greater index and not the handler is
\* invoked, and the Response goes to whoever awaits step i.
C3_ShortCircuit ==
  /\ [](\A i \in req.shorted : \A k \in 1..Len(req.trace) :
            req.trace[k].f # "H" /\ req.trace[k].i <= i)
  /\ [][(/\ req.pc = "running" /\ req.stack # <<>>
         /\ Top(req).calls = 0 /\ TopOp(req) \in RetOps
         /\ req' # req)
        => IF Len(req.stack) = 1
             THEN req'.result = Returned(Top(req), TopOp(req))
             ELSE req'.stack[Len(req.stack) - 1].res
                    = Returned(Top(req), TopOp(req))]_vars

\* C4: on a plain route whose steps each call next() once, the functions
\* entered are the global middleware in registration order, then the
\* route's middleware in the order passed, then the handler, once.
C4_PlainRouteOrder ==
  (/\ Done /\ req.kind = "plain"
   /\ AllCallOnce(useLog \o routes[req.route].middlewares))
  => /\ Entered(req) = useLog \o routes[req.route].middlewares \o <<"H">>
     /\ req.hcalls = 1

\* the steps of the running pipeline and the events of a run in which each
\* is entered once, in index order, and the handler after the last
PipeSteps == pipes[req.pipe].middlewares
InOrder(fs) == [k \in 1..(Len(fs) + 1) |->
                  IF k <= Len(fs) THEN <<fs[k], k>> ELSE <<"H", 0>>]
EnteredAt(r) == [k \in 1..Len(r.trace) |-> <<r.trace[k].f, r.trace[k].i>>]

\* C5: in execute, when each step calls next() once, steps are entered in
\* index order 0..n-1 and the handler is invoked once, after the last step
\* called next(); with no steps the handler is invoked directly.
C5_PipelineOrder ==
  (Matched /\ req.kind = "pipeline" /\ AllCallOnce(PipeSteps))
  => /\ IsPrefix(EnteredAt(req), InOrder(PipeSteps))
     /\ req.hcalls <= 1
     /\ req.pc = "done" => EnteredAt(req) = InOrder(PipeSteps) /\ req.hcalls = 1

C5_Witness ==
  /\ Done /\ req.kind = "pipeline" /\ AllCallOnce(PipeSteps)
  /\ Len(PipeSteps) >= 2 /\ PipeSteps[1] # PipeSteps[2]
  /\ req.hcalls = 1

\* C6: a second next() call in one step invocation raises a double-next
\* error that fails the request; it does not advance the chain again.
C6_DoubleNextFails ==
  /\ []((req.pc = "done" /\ req.dbl) => req.result.status = 500)
  /\ [][(/\ req.pc = "running" /\ req.stack # <<>>
         /\ Top(req).calls >= 1 /\ TopOp(req) \in CallOps
         /\ req' # req)
        => /\ req'.trace = req.trace
           /\ req'.hcalls = req.hcalls]_vars

\* C7: whatever the steps do, the handler is invoked at most once per
\* request and the final Response is not one made by a second invocation.
C7_HandlerAtMostOnce ==
  /\ req.hcalls <= 1
  /\ req.pc = "done" => req.result.hcall <= 1

\* C8: use never mutates its receiver: a pipeline made by base.use(A) has
\* base's steps followed by A, whatever other use calls were made on base,
\* and no pipeline's step list ever changes.
C8_UseLeavesReceiver ==
  /\ [](\A p \in 1..Len(pipes) :
          IF lineage[p].base = 0
            THEN pipes[p].middlewares = <<>>
            ELSE pipes[p].middlewares
                   = Append(pipes[lineage[p].base].middlewares, lineage[p].step))
  /\ [][\A p \in 1..Len(pipes) :
          pipes'[p].middlewares = pipes[p].middlewares]_vars

C8_Witness ==
  \E p1, p2 \in 1..Len(pipes) :
    /\ lineage[p1].base # 0 /\ lineage[p1].base = lineage[p2].base
    /\ lineage[p1].step # lineage[p2].step
    /\ pipes[lineage[p1].base].middlewares # <<>>

\* C9: a pipeline obtained from create(s) by use calls starts the first
\* step, or the handler, with ctx.state equal to s.
C9_InitialStateKept ==
  (Matched /\ req.kind = "pipeline" /\ req.trace # <<>>)
  => req.trace[1].st = lineage[req.pipe].decl

\* {...prior, ...out}: the pairs of out, and those of prior under other keys
Overlay(prior, out) ==
  out \cup {p \in prior : \A q \in out : q[1] # p[1]}

\* start overlaid with the first n objects of outs, in order
RECURSIVE OverlayAll(_, _, _)
OverlayAll(start, outs, n) ==
  IF n = 0 THEN start ELSE Overlay(OverlayAll(start, outs, n - 1), outs[n])

\* C10: the objects passed to next accumulate: every step entered and the
\* handler see the state the run started with overlaid with what the
\* earlier steps passed, the later write winning.
C10_StateAccumulates ==
  (Matched /\ req.kind = "pipeline" /\ req.trace # <<>>)
  => req.trace[Len(req.trace)].st
       = OverlayAll(req.trace[1].st, req.passed, Len(req.passed))

\* C11: a value a pipeline step assigns to a key of ctx.state before it
\* calls next() is read under that key by every step entered later in the
\* same request and by the handler.
C11_AssignedStateVisible ==
  (Matched /\ req.kind = "pipeline")
  => \A j, k \in 1..Len(req.trace) :
       (j < k /\ req.trace[j].f = "setU") => <<"u", 1>> \in req.trace[k].st

\* C12: of two requests served by the same pipeline route, the ctx.state
\* seen by the steps and the handler of one never holds a value written by
\* a step of the other: what a request sees comes from the pipeline's
\* declared initial state or from its own steps.
C12_NoStateLeak ==
  (Matched /\ req.kind = "pipeline")
  => \A k \in 1..Len(req.trace) :
       req.trace[k].st \subseteq (lineage[req.pipe].decl \cup req.written)

C11_Witness ==
  /\ Done /\ req.kind = "pipeline" /\ req.hcalls = 1
  /\ \E j, k \in 1..Len(req.trace) :
       /\ j < k /\ req.trace[j].f = "setU"
       /\ req.trace[k].f \notin {"H", "setU"}
       /\ <<"u", 1>> \notin req.trace[1].st
  /\ <<"u", 1>> \in req.trace[Len(req.trace)].st
  /\ req.trace[Len(req.trace)].f = "H"

\* --------------------------------------------------- the path functions
Keys(map) == {kv[1] : kv \in map}

\* pathname p has a segment for every segment of q, equal to it where q has
\* a literal
Fits(q, p) ==
  /\ Len(p) = Len(q)
  /\ \A i \in 1..Len(q) : q[i].t = "lit" => q[i] = p[i]

MatchCalled == "matchRoute" \in util.called
BothCalled  == util.called = {"matchRoute", "parseURLParams"}
Last(q)     == q[Len(q)]
Front(q)    == SubSeq(q, 1, Len(q) - 1)

\* C16 as stated: for a pattern whose last segment is an optional parameter
\* :b?, the path without that segment matches and the map has no key b;
\* the path with a segment x there matches and the map has b = x.
C16_OptionalTrailing ==
  (BothCalled /\ Len(util.pattern) >= 2 /\ Last(util.pattern).t = "opt")
  => /\ Fits(Front(util.pattern), util.pathname)
          => /\ util.matches /\ ~util.params.thrown
             /\ Last(util.pattern).v \notin Keys(util.params.map)
     /\ (/\ Len(util.pathname) = Len(util.pattern)
         /\ Fits(Front(util.pattern), Front(util.pathname)))
          => /\ util.matches /\ ~util.params.thrown
             /\ <<Last(util.pattern).v, Last(util.pathname).v>>
                  \in util.params.map

\* C16 amended: for a pattern of literal segments followed by one optional
\* parameter :b?, the path without that segment matches and the map is
\* empty; the path with a segment x there matches, and the map is
\* {b: decodeURIComponent(x)} when x is not empty and is well formed, is
\* empty when x is empty, and parseURLParams throws when x is malformed.
C16_OptionalTrailingDecoded ==
  (/\ BothCalled /\ Len(util.pattern) >= 2 /\ Last(util.pattern).t = "opt"
   /\ \A i \in 1..(Len(util.pattern) - 1) : util.pattern[i].t = "lit")
  => /\ util.pathname = Front(util.pattern)
          => /\ util.matches /\ ~util.params.thrown
             /\ util.params.map = {}
     /\ (/\ Len(util.pathname) = Len(util.pattern)
         /\ Front(util.pathname) = Front(util.pattern))
          => /\ util.matches
             /\ IF IsMalformedURI(Last(util.pathname).v)
                  THEN util.params.thrown
                ELSE /\ ~util.params.thrown
                     /\ util.params.map =
                          IF Last(util.pathname).v = "" THEN {}
                          ELSE {<<Last(util.pattern).v,
                                  decodeURIComponent(Last(util.pathname).v)>>}

C16_Witness ==
  /\ BothCalled /\ Len(util.pattern) = 3 /\ Last(util.pattern).t = "opt"
  /\ \A i \in 1..2 : util.pattern[i].t = "lit"
  /\ Len(util.pathname) = 3 /\ Front(util.pathname) = Front(util.pattern)
  /\ Last(util.pathname).v = "%41"
  /\ util.matches
  /\ util.params.map = {<<Last(util.pattern).v, "A">>}

\* C17: matchRoute is false for every path whose segment at the position
\* of a required parameter is absent or is the empty string.
C17_RequiredParamNeedsSegment ==
  (/\ MatchCalled
   /\ \E i \in 1..Len(util.pattern) :
        /\ util.pattern[i].t = "param"
        /\ i > Len(util.pathname) \/ util.pathname[i].v = "")
  => ~util.matches

Entries ==
  {[table |-> "pipeline", i |-> i] : i \in 1..Len(pipelineRoutes)}
    \cup {[table |-> "plain", i |-> i] : i \in 1..Len(routes)}
EntryOf(e) == IF e.table = "pipeline" THEN pipelineRoutes[e.i] ELSE routes[e.i]
ScanRank(e) == IF e.table = "pipeline" THEN e.i ELSE Len(pipelineRoutes) + e.i

\* the entry is for the request's method and its pattern matches the path
Hit(e) ==
  /\ EntryOf(e).method = req.method
  /\ matchRoute(EntryOf(e).path, req.path)

\* the entry the dispatcher selected, and the request's handler has run
Selected   == [table |-> req.kind, i |-> req.route]
HandlerRan == req.kind # "none" /\ req.hcalls > 0

OnlyLiterals(pattern) == \A i \in 1..Len(pattern) : pattern[i].t = "lit"

\* C13 as stated: of two routes of the same method whose patterns both
\* match the path, the handler that runs is the one of the route
\* registered earlier, whatever form each was registered in.
C13_EarlierRouteWins ==
  HandlerRan
  => \A e \in Entries : Hit(e) => req.handler <= EntryOf(e).handler

\* C13 amended: of two routes of the same method in the same table whose
\* patterns both match the path, the handler that runs is never the one
\* registered later; of a pipeline route and a plain route that both match,
\* the handler that runs is the pipeline route's.
C13_EarlierRouteWinsInTable ==
  HandlerRan
  => /\ \A e \in Entries :
          (Hit(e) /\ e.table = req.kind) => req.handler <= EntryOf(e).handler
     /\ \A e \in Entries :
          (Hit(e) /\ e.table = "pipeline") => req.kind = "pipeline"

C13_Witness ==
  /\ HandlerRan
  /\ \E e \in Entries :
       /\ Hit(e) /\ e.table = req.kind /\ e # Selected
       /\ EntryOf(e).path # EntryOf(Selected).path
       /\ req.handler < EntryOf(e).handler

\* C14: the pipeline-route table is scanned before the plain-route table
\* and each table from its first entry: the selected entry is the first
\* pipeline route that matches, or, when none does, the first plain route.
C14_PipelineTableFirst ==
  (req.pc # "idle" /\ req.kind # "none")
  => /\ Hit(Selected)
     /\ \A e \in Entries : Hit(e) => ScanRank(Selected) <= ScanRank(e)

C14_Witness ==
  /\ req.pc # "idle" /\ req.kind = "pipeline"
  /\ \E e \in Entries :
       Hit(e) /\ e.table = "plain" /\ EntryOf(e).handler < req.handler

\* C15 as stated: a request whose method and path equal those of a
\* registered route with a literal-only pattern is dispatched to that
\* route's handler and to no route with a different pattern.
C15_LiteralRouteExact ==
  (/\ req.pc # "idle"
   /\ \E e \in Entries :
        /\ OnlyLiterals(EntryOf(e).path)
        /\ EntryOf(e).method = req.method /\ EntryOf(e).path = req.path)
  => /\ req.kind # "none"
     /\ EntryOf(Selected).path = req.path

\* C15 amended: such a request, when it is not answered as a CORS
\* preflight, is dispatched to a route of its method, and the pattern of
\* that route is the request's path or has a parameter; it is R's own
\* handler unless an entry scanned before R has the same pattern or a
\* parameter pattern.
C15_LiteralRouteUnlessShadowed ==
  (req.pc # "idle" /\ ~Preflight(req.method))
  => \A e \in Entries :
       (/\ OnlyLiterals(EntryOf(e).path)
        /\ EntryOf(e).method = req.method /\ EntryOf(e).path = req.path)
       => /\ req.kind # "none"
          /\ EntryOf(Selected).method = req.method
          /\ \/ EntryOf(Selected).path = req.path
             \/ ~OnlyLiterals(EntryOf(Selected).path)
          /\ \/ Selected = e
             \/ /\ ScanRank(Selected) < ScanRank(e)
                /\ \/ EntryOf(Selected).path = req.path
                   \/ ~OnlyLiterals(EntryOf(Selected).path)

C15_Witness ==
  /\ HandlerRan
  /\ OnlyLiterals(EntryOf(Selected).path)
  /\ EntryOf(Selected).path = req.path
  /\ \E e \in Entries :
       /\ e # Selected /\ EntryOf(e).method = req.method
       /\ OnlyLiterals(EntryOf(e).path) /\ EntryOf(e).path # req.path
       /\ ScanRank(e) < ScanRank(Selected)

\* C19: a request that reaches its handler has in ctx.params, for every
\* required parameter of the matched pattern, the path segment at that
\* position; in particular every required parameter name is a key of
\* ctx.params, which is the part stated here.
C19_RequiredParamsPresent ==
  HandlerRan
  => \A i \in 1..Len(EntryOf(Selected).path) :
       EntryOf(Selected).path[i].t = "param"
         => EntryOf(Selected).path[i].v \in Keys(req.params)

NoHit == \A e \in Entries : ~Hit(e)

\* C20 as stated: a request that matches no entry of either table gets the
\* 404 response with the literal body, and no middleware, no handler and no
\* body parsing runs for it; a route of another method never handles it.
C20_UnmatchedIs404 ==
  /\ (req.pc # "idle" /\ NoHit)
       => /\ req.pc = "done" /\ req.result = Resp404
          /\ req.trace = <<>> /\ req.hcalls = 0 /\ req.parses = 0
  /\ (req.pc # "idle" /\ req.kind # "none")
       => EntryOf(Selected).method = req.method

\* C20 amended: such a request gets the 404 response with the literal body
\* unless CORS is configured and its method is OPTIONS, when it gets the
\* 204 preflight response; in both cases no middleware, no handler and no
\* body parsing runs for it; a route of another method never handles it.
C20_UnmatchedIs404OrPreflight ==
  /\ (req.pc # "idle" /\ NoHit)
       => /\ req.pc = "done"
          /\ req.result = IF Preflight(req.method)
                             THEN handleCors(options.cors) ELSE Resp404
          /\ req.kind = "none"
          /\ req.trace = <<>> /\ req.hcalls = 0 /\ req.parses = 0
  /\ (req.pc # "idle" /\ req.kind # "none")
       => EntryOf(Selected).method = req.method

C20_Witness ==
  /\ req.pc = "done" /\ NoHit /\ req.result = Resp404
  /\ req.method = "POST"
  /\ globalMiddlewares # <<>>
  /\ \E e \in Entries :
       /\ e.table = "plain" /\ EntryOf(e).method # req.method
       /\ matchRoute(EntryOf(e).path, req.path)
  /\ \E e \in Entries :
       /\ e.table = "pipeline" /\ EntryOf(e).method # req.method
       /\ matchRoute(EntryOf(e).path, req.path)

\* ---------------------------------------------------------- CORS preflight
CorsConfigured == options.cors.t # "false"

\* the values of the header of that name in the response
HeaderValues(resp, name) == {p[2] : p \in {q \in resp.headers : q[1] = name}}

\* an option as the text of a header value
TextOf(x) == IF x.t = "array" THEN Join(x.v) ELSE x.v[1]

\* the OPTIONS request was answered by handleCors alone: 204, no table
\* consulted, no middleware and no handler run
Bypassed ==
  /\ req.pc = "done" /\ req.result.status = 204
  /\ req.kind = "none" /\ req.route = 0
  /\ req.trace = <<>> /\ req.hcalls = 0

\* the request went through the route lookup: 404 when no entry matches,
\* else the first matching entry of the scan handles it
LookedUp ==
  IF NoHit THEN req.pc = "done" /\ req.result = Resp404
  ELSE /\ req.kind # "none" /\ Hit(Selected)
       /\ \A e \in Entries : Hit(e) => ScanRank(Selected) <= ScanRank(e)

\* C21 as stated: with CORS configured an OPTIONS request gets the 204
\* preflight response whose three Access-Control-Allow headers carry the
\* configured values, or the defaults where none is configured, and no
\* table is consulted and no middleware or handler runs; with CORS not
\* configured an OPTIONS request goes through the route lookup.
C21_PreflightConfigured ==
  /\ (req.pc # "idle" /\ CorsConfigured /\ req.method = "OPTIONS")
       => /\ Bypassed
          /\ HeaderValues(req.result, "Access-Control-Allow-Origin")
               = {IF options.cors.origin.t # "undefined"
                    THEN TextOf(options.cors.origin) ELSE DefaultOrigin}
          /\ HeaderValues(req.result, "Access-Control-Allow-Methods")
               = {IF options.cors.methods.t # "undefined"
                    THEN TextOf(options.cors.methods) ELSE DefaultMethods}
          /\ HeaderValues(req.result, "Access-Control-Allow-Headers")
               = {IF options.cors.headers.t # "undefined"
                    THEN TextOf(options.cors.headers) ELSE DefaultHeaders}
  /\ (req.pc # "idle" /\ ~CorsConfigured /\ req.method = "OPTIONS")
       => LookedUp

\* C21 amended: the headers carry the configured values where those are
\* not empty (an origin array is joined as it is, an empty one too), and
\* the defaults where a value is absent, an empty origin string, or an
\* empty methods or headers list; the rest as stated.
C21_PreflightNonEmpty ==
  /\ (req.pc # "idle" /\ CorsConfigured /\ req.method = "OPTIONS")
       => /\ Bypassed
          /\ HeaderValues(req.result, "Access-Control-Allow-Origin")
               = {IF options.cors.origin.t = "array"
                       \/ (options.cors.origin.t = "string"
                             /\ options.cors.origin.v # <<"">>)
                    THEN TextOf(options.cors.origin) ELSE DefaultOrigin}
          /\ HeaderValues(req.result, "Access-Control-Allow-Methods")
               = {IF options.cors.methods.t = "array"
                       /\ options.cors.methods.v # <<>>
                    THEN TextOf(options.cors.methods) ELSE DefaultMethods}
          /\ HeaderValues(req.result, "Access-Control-Allow-Headers")
               = {IF options.cors.headers.t = "array"
                       /\ options.cors.headers.v # <<>>
                    THEN TextOf(options.cors.headers) ELSE DefaultHeaders}
  /\ (req.pc # "idle" /\ ~CorsConfigured /\ req.method = "OPTIONS")
       => LookedUp

\* an OPTIONS request answered by the preflight although a route for
\* OPTIONS matches it, the origins and the methods being configured
C21_Witness ==
  /\ req.pc = "done" /\ req.method = "OPTIONS"
  /\ options.cors.t = "object"
  /\ options.cors.origin = Arr(<<"o1", "o2">>)
  /\ options.cors.methods = Arr(<<"GET", "POST">>)
  /\ options.cors.headers = Undefined
  /\ req.result.status = 204
  /\ \E e \in Entries : Hit(e)

\* ------------------------------------------------------- failures of a run
\* the steps of the matched route, in the order the chain enters them
ChainOf(r) ==
  IF r.kind = "pipeline" THEN pipes[r.pipe].middlewares ELSE r.chain

\* the first step of the chain that throws (0 if none): every step before
\* it calls next once before it does anything else
Throwers(r) ==
  {i \in 1..Len(ChainOf(r)) : ChainOf(r)[i] \in {"boom", "upErr"}}
FirstThrower(r) ==
  IF Throwers(r) = {} THEN 0
  ELSE CHOOSE i \in Throwers(r) : \A j \in Throwers(r) : i <= j

\* the message of the failure the run of the chain raises, <<>> if none,
\* and the steps entered before it is raised
ThrownMessage(r) ==
  IF FirstThrower(r) # 0
    THEN IF ChainOf(r)[FirstThrower(r)] = "upErr" THEN FakeUploadError ELSE Boom
  ELSE IF r.hfn = "upErr" THEN FakeUploadError
  ELSE IF r.hfn = "boom" THEN Boom
  ELSE <<>>
StepsAbove(r) ==
  IF FirstThrower(r) # 0 THEN FirstThrower(r) - 1 ELSE Len(ChainOf(r))

\* the steps above the failure that await next() inside try/catch
Guards(r) == {i \in 1..StepsAbove(r) : ChainOf(r)[i] = "guard"}

\* the chain of the request has run to its end
ChainDone(r) ==
  r.pc = "done" /\ r.kind # "none" /\ r.route # 0
    /\ \E i \in 1..Len(r.phases) : r.phases[i] = "Dispatching"

\* a failure of a step or of the handler that no step caught
Uncaught(r) == ChainDone(r) /\ ThrownMessage(r) # <<>> /\ Guards(r) = {}

\* C22 as stated: a failure of a step or of the handler that is not caught
\* in the chain is answered 500 with the literal body; the status is never
\* 400 and the body never holds the message of the failure.
C22_UncaughtIs500 ==
  Uncaught(req)
    => /\ req.result = Resp500
       /\ req.result.status # 400
       /\ req.result.error = <<>>

\* ------------------------------------------------- rejections of the parser
\* the multipart body breaks a limit of options.uploads
TooLarge(r) ==
  \E i \in 1..Len(r.request.files) :
    options.uploads.maxFileSize # 0
      /\ r.request.files[i].size > options.uploads.maxFileSize
BadType(r) ==
  \E i \in 1..Len(r.request.files) :
    options.uploads.allowedTypes.given
      /\ r.request.files[i].type \notin options.uploads.allowedTypes.types
TooMany(r) ==
  options.uploads.maxFiles # 0
    /\ Len(r.request.files) > options.uploads.maxFiles
Rejected(r) ==
  /\ r.parses > 0 /\ r.pc \notin {"idle", "parsing"}
  /\ r.request.ctype = "multipart/form-data"
  /\ TooLarge(r) \/ BadType(r) \/ TooMany(r)

\* C23: when the parser rejects a multipart body for a file too large, a
\* type not allowed or too many files, the response is 400 with the JSON
\* body {error: message}, and no step and no handler of the route ran.
C23_RejectedUploadIs400 ==
  Rejected(req)
    => /\ req.pc = "done"
       /\ req.result.status = 400 /\ req.result.body = "json"
       /\ req.result.error # <<>> /\ req.result.error = req.failure
       /\ <<"content-type", "application/json">> \in req.result.headers
       /\ req.trace = <<>> /\ req.hcalls = 0 /\ req.stack = <<>>

\* two files against maxFiles 1, on a route with a step and a handler
C23_Witness ==
  /\ Rejected(req) /\ TooMany(req) /\ ~TooLarge(req) /\ ~BadType(req)
  /\ ChainOf(req) # <<>>
  /\ req.result.status = 400

\* ------------------------------------------------ failures a step catches
NearestGuard(r) == CHOOSE i \in Guards(r) : \A j \in Guards(r) : j <= i

\* C24: a failure of a later step or of the handler goes through next() to
\* the nearest earlier step that awaits next() in try/catch and to no other;
\* the response that step returns is what the steps before it get and, with
\* their own changes, what the client gets; the dispatcher's catch does not
\* run.
C24_NearestTryCatches ==
  (ChainDone(req) /\ ThrownMessage(req) # <<>> /\ Guards(req) # {})
    => /\ req.caught = <<[idx |-> NearestGuard(req),
                          message |-> ThrownMessage(req)]>>
       /\ req.failure = <<>>
       /\ req.result # Resp500
       /\ req.result =
            IF \E i \in 1..(NearestGuard(req) - 1) : ChainOf(req)[i] = "hdr"
              THEN SetHeader(RespGuard) ELSE RespGuard

\* the handler threw, the second of two steps caught, and the first step
\* put its header on the response of the second
C24_Witness ==
  /\ ChainDone(req) /\ req.hfn = "upErr"
  /\ ChainOf(req) = <<"hdr", "guard">>
  /\ req.result = SetHeader(RespGuard)

\* ------------------------------------------------------ calls of parseBody
\* C25: parseBody is called only for a matched request of method POST, PUT
\* or PATCH, once and before the first step is entered; a matched request
\* of another method has body null and files undefined and no call.
C25_ParserOnlyForBodyMethods ==
  /\ req.parses <= 1
  /\ req.parses > 0
       => /\ req.kind # "none"
          /\ req.method \in {"POST", "PUT", "PATCH"}
          /\ req.entered.parse = 0
  /\ (req.trace # <<>> /\ req.method \in {"POST", "PUT", "PATCH"})
       => req.parses = 1
  /\ (req.kind # "none" /\ req.route # 0
        /\ req.method \notin {"POST", "PUT", "PATCH"})
       => /\ req.parses = 0
          /\ req.body = "null" /\ ~req.files.defined

\* a GET and a POST request whose chain has run
C25_Witness ==
  /\ ChainDone(req) /\ req.method = "POST" /\ req.parses = 1
  /\ req.body = "form" /\ req.files.defined
  /\ Len(req.trace) = 2

\* -------------------------------------------------- the life of a request
InFlight == req.pc \in {"parsing", "running"}

PathNotFound  == <<"Received", "NotFound">>
PathCompleted == <<"Received", "Matched", "Parsing", "Dispatching", "Completed">>
PathFailed    == <<"Received", "Matched", "Parsing", "Dispatching", "Failed">>
PathFailedParsing == <<"Received", "Matched", "Parsing", "Failed">>
PathPreflight == <<"Received">>

\* a failure has been raised in the request
Failing(r) == r.failure # <<>> \/ r.caught # <<>>

\* once the Response is there it is the one the client gets, and after a
\* failure no step and no handler of the request is entered
OneResponseNoRetry ==
  [][/\ req.pc = "done" => req' = Idle
     /\ (Failing(req) /\ req'.pc # "idle")
          => (req'.trace = req.trace /\ req'.hcalls = req.hcalls)]_vars

\* C26 as stated, its paths: a request that has its Response got it by
\* Received -> NotFound or by Received -> Matched -> Parsing -> Dispatching
\* -> Completed or Failed.
C26_StatedPaths ==
  req.pc = "done" => req.phases \in {PathNotFound, PathCompleted, PathFailed}

\* C26 amended: where parseBody, the steps and the handler terminate, every
\* call of handleRequest yields one Response, by one of the paths stated,
\* or by Received -> Matched -> Parsing -> Failed when the parameters or
\* the body fail to parse, or straight from Received for an OPTIONS request
\* with CORS configured; after a failure no step or handler runs again.
C26_OneResponseEventually ==
  /\ InFlight ~> req.pc = "done"
  /\ [](req.pc = "done"
         => /\ req.result.status # 0
            /\ req.stack = <<>>
            /\ IF Preflight(req.method) THEN req.phases = PathPreflight
               ELSE req.phases \in {PathNotFound, PathCompleted, PathFailed,
                                    PathFailedParsing})
  /\ [](req.phases = PathFailedParsing => req.trace = <<>>)
  /\ OneResponseNoRetry

\* a request whose handler failed after two steps were entered
C26_Witness ==
  /\ req.pc = "done" /\ req.phases = PathFailed
  /\ Len(req.trace) = 3 /\ req.hcalls = 1
  /\ req.result.status = 500

\* ------------------------------------------------------ response staging
\* the calls of ctx.set before the Response b was built that wrote the
\* header k, or a status
HeaderWrites(b, k) ==
  {i \in 1..b.at : context.log[i].op = "headers"
                     /\ Lower(context.log[i].k) = Lower(k)}
StatusWrites(b) == {i \in 1..b.at : context.log[i].op = "status"}
LatestOf(writes) == CHOOSE i \in writes : \A j \in writes : j <= i

\* the entries of init.headers for the header k
InitWrites(b, k) ==
  {i \in 1..Len(b.init.headers) : Lower(b.init.headers[i][1]) = Lower(k)}

Staged(b) == {k \in HeaderNames : HeaderWrites(b, k) # {}}

StatusAsStaged(b) ==
  IF b.init.status # 0 THEN b.init.status
  ELSE IF StatusWrites(b) # {}
    THEN context.log[LatestOf(StatusWrites(b))].status
  ELSE 200

HeaderAsStaged(b, k) ==
  IF InitWrites(b, k) # {} THEN b.init.headers[LatestOf(InitWrites(b, k))][2]
  ELSE context.log[LatestOf(HeaderWrites(b, k))].v

\* C27 as stated: the Response of ctx.json, ctx.text and ctx.html has the
\* status of init if one is passed, else the status staged last, else 200;
\* each staged header has the value written last for it, or the value init
\* passes for it; what is staged after the call changes nothing of it.
C27_BuiltFromStaging ==
  LET b == context.built IN
    b.by \in {"json", "text", "html"}
      => /\ b.status = StatusAsStaged(b)
         /\ \A k \in Staged(b) :
              HeaderValues(b, Lower(k)) = {HeaderAsStaged(b, k)}

\* C27 amended: so it is for every staged header but content-type, which
\* has the value init passes for it, else the content type the method sets
\* itself, whatever was staged for it.
C27_BuiltFromStagingButContentType ==
  LET b == context.built IN
    b.by \in {"json", "text", "html"}
      => /\ b.status = StatusAsStaged(b)
         /\ \A k \in Staged(b) :
              HeaderValues(b, Lower(k)) =
                {IF Lower(k) = "content-type" /\ InitWrites(b, k) = {}
                   THEN ContentType(b.by) ELSE HeaderAsStaged(b, k)}

\* a header staged before ctx.json was called and staged again after it:
\* the Response has the first value
C27_Witness ==
  /\ context.built.by = "json" /\ context.built.at = 1
  /\ Len(context.log) = 2
  /\ context.log[1] = [op |-> "headers", k |-> "X-A", v |-> "1", status |-> 0]
  /\ context.log[2] = [op |-> "headers", k |-> "x-a", v |-> "2", status |-> 0]
  /\ HeaderValues(context.built, "x-a") = {"1"}

\* C28 as stated: the Response of ctx.file and ctx.proxy has every staged
\* header with the staged value, whatever the collaborator's Response has
\* for it, and, where a status was staged, the staged status.
C28_StagedOverCollaborator ==
  LET b == context.built IN
    b.by \in {"file", "proxy"}
      => /\ \A k \in Staged(b) :
              HeaderValues(b, Lower(k))
                = {context.log[LatestOf(HeaderWrites(b, k))].v}
         /\ StatusWrites(b) # {}
              => b.status = context.log[LatestOf(StatusWrites(b))].status

\* --------------------------------------------------- the way back of a run
\* the step on top of the stack returns in this step
Returning ==
  /\ req.pc = "running" /\ req.stack # <<>>
  /\ TopOp(req) \in RetOps
  /\ req'.hcalls = req.hcalls /\ req'.trace = req.trace
  /\ Len(req'.stack) = Len(req.stack) - 1

\* what it returns: the Response next() gave it, with the X-Test header
\* where it sets it, or its own 401
ReturnValue ==
  CASE TopOp(req) = "ret"    -> Top(req).res
    [] TopOp(req) = "retHdr" -> [Top(req).res EXCEPT !.xtest = TRUE]
    [] TopOp(req) = "ret401" -> Resp401

\* the handler returns its Response in this step
HandlerReturning ==
  /\ req'.hcalls = req.hcalls + 1
  /\ req'.hfn = "ok"

\* C29: the steps return in the reverse of the order they were entered in;
\* what a step returns is what the step before it gets from next(), and
\* what the outermost step returns is the Response of the client; the
\* handler's Response goes to the step entered last; so the Response of a
\* run without failure is the handler's with the header of each step that
\* sets one after next().
C29_ResponseTravelsBack ==
  /\ [](\A i, j \in 1..Len(req.stack) :
           i < j => req.stack[i].idx < req.stack[j].idx)
  /\ [][Returning
          => IF Len(req.stack) = 1
               THEN req'.pc = "done" /\ req'.result = ReturnValue
               ELSE /\ req'.pc = "running"
                    /\ req'.stack[Len(req'.stack)].res = ReturnValue
                    /\ \A i \in 1..(Len(req'.stack) - 1) :
                         req'.stack[i] = req.stack[i]]_vars
  /\ [][HandlerReturning
          => IF req'.stack = <<>>
               THEN req'.pc = "done"
                      /\ req'.result = HandlerResp({}, req'.hcalls)
               ELSE /\ Len(req'.stack) = Len(req'.trace) - 1
                    /\ req'.stack[Len(req'.stack)].res
                         = HandlerResp({}, req'.hcalls)]_vars
  /\ []((ChainDone(req) /\ ThrownMessage(req) = <<>>)
          => req.result =
               IF \E i \in 1..Len(ChainOf(req)) : ChainOf(req)[i] = "hdr"
                 THEN [HandlerResp({}, 1) EXCEPT !.xtest = TRUE]
                 ELSE HandlerResp({}, 1))

\* the handler's Response came back through two steps, the outer of which
\* set its header after next()
C29_Witness ==
  /\ ChainDone(req) /\ req.hfn = "ok"
  /\ ChainOf(req) = <<"hdr", "guard">>
  /\ req.result = [HandlerResp({}, 1) EXCEPT !.xtest = TRUE]

\* ------------------------------------------------- two requests in flight
\* the steps r has entered, and whether the handler was entered after them
StepsEntered(r) == {k \in 1..Len(r.trace) : r.trace[k].f # "H"}

\* r has entered its steps in order from the first, one position at a
\* time, and its handler only after the last of them
InOwnOrder(r) ==
  /\ r.index = Cardinality(StepsEntered(r))
  /\ \A k \in StepsEntered(r) :
       k <= Len(ChainOf(r)) /\ r.trace[k].i = k /\ r.trace[k].f = ChainOf(r)[k]
  /\ \A k \in 1..Len(r.trace) :
       r.trace[k].f = "H" => k = Len(ChainOf(r)) + 1

\* the run of r alone: the steps up to the first that answers without
\* next(), else all of them and the handler
Denying(r) == {i \in 1..Len(ChainOf(r)) : ChainOf(r)[i] = "deny"}
AloneTrace(r) ==
  IF Denying(r) = {}
    THEN [k \in 1..(Len(ChainOf(r)) + 1) |->
            IF k <= Len(ChainOf(r)) THEN ChainOf(r)[k] ELSE "H"]
    ELSE LET d == CHOOSE i \in Denying(r) : \A j \in Denying(r) : i <= j
         IN  [k \in 1..d |-> ChainOf(r)[k]]
AloneResult(r) ==
  LET d == IF Denying(r) = {} THEN Len(ChainOf(r)) + 1
           ELSE CHOOSE i \in Denying(r) : \A j \in Denying(r) : i <= j
      state == IF \E i \in 1..Len(ChainOf(r)) : ChainOf(r)[i] = "setU"
                 THEN {<<"u", 1>>} ELSE {}
      inner == IF Denying(r) = {} THEN HandlerResp(state, 1) ELSE Resp401
  IN  IF \E i \in 1..(d - 1) : ChainOf(r)[i] = "hdr"
        THEN SetHeader(inner) ELSE inner

\* every step of r but the one entered last is waiting in its call of
\* next()
OneStepRuns(r) ==
  \A i \in 1..(Len(r.stack) - 1) :
    /\ r.stack[i].pos > 1
    /\ Prog(r.stack[i].fn)[r.stack[i].pos - 1] \in CallOps
    /\ r.stack[i].idx < r.stack[i + 1].idx

\* C30: of two requests to one route in flight at once, each enters its
\* steps in order by its own position and reaches its own handler, and
\* gets the Response it gets when run alone; in one request one step runs
\* at a time.
C30_RequestsIndependent ==
  \A r \in {req, other} :
    r.kind # "none"
      => /\ InOwnOrder(r)
         /\ OneStepRuns(r)
         /\ r.hcalls <= 1
         /\ r.pc = "done"
              => /\ [k \in 1..Len(r.trace) |-> r.trace[k].f] = AloneTrace(r)
                 /\ r.result = AloneResult(r)

\* a request has its Response while the other, dispatched before it was,
\* still waits in its first step of two
C30_Witness ==
  /\ req.pc = "done" /\ req.kind = "plain" /\ req.hcalls = 1
  /\ Len(ChainOf(req)) = 2
  /\ other.pc = "running" /\ Len(other.stack) = 1 /\ other.index = 1

\* ---------------------------------------------------------- C31, C32
\* the step lists of the pipeline objects are as they were
StepListsKept ==
  /\ Len(pipes') >= Len(pipes)
  /\ \A p \in 1..Len(pipes) : pipes'[p].middlewares = pipes[p].middlewares

\* C31: a step of handling a request leaves the two route tables, the
\* global middleware list and the step list of every pipeline as they were;
\* any step leaves every entry a table already has in its place, unaltered,
\* together with the step list of the pipeline it holds.
C31_TablesAppendOnly ==
  [][/\ req' # req
          => /\ routes' = routes
             /\ pipelineRoutes' = pipelineRoutes
             /\ globalMiddlewares' = globalMiddlewares
             /\ Len(pipes') = Len(pipes)
             /\ StepListsKept
     /\ IsPrefix(routes, routes')
     /\ IsPrefix(pipelineRoutes, pipelineRoutes')
     /\ StepListsKept]_vars

\* a request has run the step of a pipeline route that writes to ctx.state,
\* with an entry in each table and a global middleware registered
C31_Witness ==
  /\ req.pc = "done" /\ req.kind = "pipeline" /\ req.written # {}
  /\ Len(routes) = 1 /\ Len(pipelineRoutes) = 1
  /\ globalMiddlewares # <<>>

\* the entries of a table that the i-th call of a verb made
MadeBy(table, i) == {j \in 1..Len(table) : table[j].handler = i}

\* the entries of a table are in the order of the calls that made them
InCallOrder(table) ==
  \A j, k \in 1..Len(table) : j < k => table[j].handler < table[k].handler

\* the names of the functions args[1..n]
Names(args, n) == [k \in 1..n |-> args[k].f]

\* C32: every call of a verb made one entry in one table, after the
\* entries the table had: verb(path, handler) an entry of the
\* pipeline-route table with a pipeline of no steps, verb(path, pipeline,
\* handler) an entry of that table with the steps of the pipeline, and
\* verb(path, mw1..mwk, handler) an entry of the plain-route table with the
\* handler given last and mw1..mwk in the order given.
C32_TableByShape ==
  /\ Len(routes) + Len(pipelineRoutes) = Len(regLog)
  /\ InCallOrder(routes)
  /\ InCallOrder(pipelineRoutes)
  /\ \A i \in 1..Len(regLog) :
       LET call == regLog[i]
           n == Len(call.args)
           plain == MadeBy(routes, i)
           piped == MadeBy(pipelineRoutes, i)
       IN  IF n = 1 \/ (n = 2 /\ call.args[1].t = "object")
             THEN /\ plain = {}
                  /\ Cardinality(piped) = 1
                  /\ \A j \in piped :
                       /\ pipelineRoutes[j].method = call.method
                       /\ pipelineRoutes[j].path = call.path
                       /\ pipelineRoutes[j].hfn = call.args[n].f
                       /\ pipes[pipelineRoutes[j].pipeline].middlewares
                            = IF n = 1 THEN <<>> ELSE call.args[1].steps
             ELSE /\ piped = {}
                  /\ Cardinality(plain) = 1
                  /\ \A j \in plain :
                       /\ routes[j].method = call.method
                       /\ routes[j].path = call.path
                       /\ routes[j].hfn = call.args[n].f
                       /\ routes[j].middlewares = Names(call.args, n - 1)

\* a call with a pipeline of one step and then a call with two different
\* middleware functions have been made
C32_Witness ==
  /\ Len(regLog) = 2
  /\ regLog[1].args[1].t = "object" /\ regLog[1].args[1].steps # <<>>
  /\ Len(regLog[2].args) = 3
  /\ regLog[2].args[1].f # regLog[2].args[2].f
  /\ Len(routes) = 1 /\ Len(pipelineRoutes) = 1

\* ------------------------------------------------------------------- C33
\* the keys of the search parameters, and the value of the last entry of a
\* key
QueryKeysOf(entries) == {entries[i][1] : i \in 1..Len(entries)}
LastValue(entries, key) ==
  LET at == {i \in 1..Len(entries) : entries[i][1] = key}
  IN  entries[CHOOSE i \in at : \A j \in at : j <= i][2]

\* C33: the object parseQuery returns has, for every key of the query
\* string, the value of the last occurrence of the key as the string it is,
\* and has no other key.
C33_LastOccurrenceWins ==
  "parseQuery" \in util.called
    => util.query = {<<key, LastValue(util.entries, key)>> :
                       key \in QueryKeysOf(util.entries)}

\* ---------------------------------------------------------- C34, C35
\* the requests of a key that fell in the window with the reset time, and
\* those of them that reached next()
InWindow(key, reset) ==
  {i \in 1..Len(arrivals) : arrivals[i].key = key /\ arrivals[i].window = reset}
Admitted(key, reset) == {i \in InWindow(key, reset) : arrivals[i].next}

\* the windows a key has had
WindowsOf(key) ==
  {arrivals[i].window : i \in {j \in 1..Len(arrivals) : arrivals[j].key = key}}

\* C34: whatever the order in which the requests of a key arrive and their
\* calls of next() settle, at most maxRequests requests of one window reach
\* next(); each further request of the window gets status 429 and does not
\* reach next(); and the count stored for a key is the number of requests
\* admitted in its current window.
C34_AtMostMaxPerWindow ==
  /\ \A i \in 1..Len(arrivals) :
       LET a == arrivals[i]
           before == {j \in Admitted(a.key, a.window) : j < i}
       IN  /\ a.at <= a.window /\ a.at >= a.window - limit.windowMs
           /\ Cardinality(Admitted(a.key, a.window)) <= limit.maxRequests
           /\ Cardinality(before) >= limit.maxRequests
                => ~a.next /\ a.status = 429 /\ a.settled
           /\ ~a.next => a.status = 429
  /\ \A key \in DOMAIN store :
       store[key].count = Cardinality(Admitted(key, store[key].resetTime))

\* a request of the key arrives in this step
Arrives(key) ==
  /\ Len(arrivals') = Len(arrivals) + 1
  /\ arrivals'[Len(arrivals')].key = key

\* C35: a request of a key that arrives after the reset time stored for the
\* key is admitted and stores count 1 and the reset time now + windowMs;
\* a request that arrives up to the reset time leaves the reset time as it
\* is and the count no less; nothing else changes the entry of a key, and no
\* entry is removed.
C35_WindowRestartsAfterExpiry ==
  [][\A key \in DOMAIN store :
       /\ key \in DOMAIN store'
       /\ IF ~Arrives(key) THEN store'[key] = store[key]
          ELSE IF now > store[key].resetTime
            THEN /\ store'[key] = [count |-> 1,
                                   resetTime |-> now + limit.windowMs]
                 /\ arrivals'[Len(arrivals')].next
            ELSE /\ store'[key].resetTime = store[key].resetTime
                 /\ store'[key].count >= store[key].count]_vars

\* a key is in its second window, with two requests admitted in it, while a
\* request of its first window still awaits next()
C35_Witness ==
  \E key \in DOMAIN store :
    /\ store[key].count = 2
    /\ Cardinality(WindowsOf(key)) = 2
    /\ \E i \in 1..Len(arrivals) :
         /\ arrivals[i].key = key /\ arrivals[i].window < store[key].resetTime
         /\ ~arrivals[i].settled

\* ------------------------------------------------------------------- C36
\* C36: called with middleware that each call next() once, the middleware
\* made by combineMiddleware enters them in the order given, then calls the
\* outer next() once, and returns the Response that came back; no Error
\* 'next() called multiple times' is raised.
C36_CombinedRunsInOrder ==
  req.kind = "combined" /\ req.pc = "done" /\ AllCallOnce(req.chain)
    => /\ Entered(req) = Append(req.chain, "H")
       /\ req.hcalls = 1
       /\ req.failure = <<>>
       /\ req.result.status = 200

\* ------------------------------------------------------------------- C37
\* C37: whatever the steps do, a step that calls next() more than once
\* included, the steps a request has entered are steps of its chain entered
\* in increasing index order, so none of them twice.
C37_StepsOnceInOrder ==
  \A r \in {req} :
    r.kind \in {"plain", "pipeline"}
      => /\ \A k \in StepsEntered(r) :
              /\ r.trace[k].i \in 1..Len(ChainOf(r))
              /\ r.trace[k].f = ChainOf(r)[r.trace[k].i]
         /\ \A j, k \in StepsEntered(r) :
              j < k => r.trace[j].i < r.trace[k].i

\* a request has its Response after its first step of three called next()
\* twice: the first call entered the second step, which answered, and the
\* second call the third step and through it the handler
C37_Witness ==
  /\ req.pc = "done" /\ req.kind = "pipeline" /\ req.dbl
  /\ ChainOf(req) = <<"twice", "deny", "hdr">>
  /\ Cardinality(StepsEntered(req)) = 3
  /\ req.hcalls = 1

\* ------------------------------------------------------------------- C38
\* the steps of r stage for it: its chain has the staging step and it is
\* the request of /a
OwnStaged(r) ==
  /\ r.path = PathA
  /\ \E i \in 1..Len(ChainOf(r)) : ChainOf(r)[i] = "stage"

\* the headers of a Response but the content type ctx.json sets
StagedHeaders(resp) == {p \in resp.headers : p[1] # "content-type"}

\* C38: of two requests in flight, each has staging fields that are empty
\* with status 200 until its own steps stage, and the Response built for a
\* request has the header and the status its own steps staged, and none
\* where they staged nothing, whatever the other request staged.
C38_StagingPerRequest ==
  \A r \in {req, other} :
    r.kind # "none"
      => /\ r.staging.log = <<>>
              => /\ r.staging.responseHeaders = {}
                 /\ r.staging.responseStatus = 200
         /\ r.staging.log # <<>> => OwnStaged(r)
         /\ r.pc = "done"
              => /\ r.result.status = IF OwnStaged(r) THEN 201 ELSE 200
                 /\ StagedHeaders(r.result)
                      = IF OwnStaged(r) THEN {<<"x-a", "1">>} ELSE {}

\* the request of /b has its Response, with status 200 and no staged
\* header, built while the request of /a, which has staged, awaits next()
C38_Witness ==
  /\ req.pc = "done" /\ req.path = PathB /\ req.hcalls = 1
  /\ req.result.status = 200 /\ StagedHeaders(req.result) = {}
  /\ other.pc = "running" /\ other.path = PathA
  /\ other.staging.log # <<>> /\ other.hcalls = 0

====
